---- MODULE Spec2Model ----
(***************************************************************************)
(* AI analysis orchestration of the FingerprintJS analytics dashboard:     *)
(* the Express endpoints of server.js, the AIService class (TypeScript     *)
(* service, src/components/Overview.tsx lines 733-1673) and the older      *)
(* JavaScript service (src/services/aiService.js) that server.js imports   *)
(* by path.  Texts are TLA+ strings; the string, JSON and number           *)
(* conversions are computed character by character as the code does.       *)
(***************************************************************************)
EXTENDS Integers, Sequences, FiniteSets, TLC

(***************************************************************************)
(* JavaScript string primitives                                            *)
(***************************************************************************)
charAt(s, i) == SubSeq(s, i, i)

slice(s, from, to) == SubSeq(s, from + 1, IF to < Len(s) THEN to ELSE Len(s))

includes(s, k) ==
  \E i \in 1..(Len(s) - Len(k) + 1) : SubSeq(s, i, i + Len(k) - 1) = k

startsWith(s, p) == Len(p) <= Len(s) /\ SubSeq(s, 1, Len(p)) = p

indexOfFrom(s, k, from) ==
  LET hits == {i \in from..(Len(s) - Len(k) + 1) : SubSeq(s, i, i + Len(k) - 1) = k}
  IN  IF hits = {} THEN 0 ELSE CHOOSE i \in hits : \A j \in hits : i <= j

lastIndexOf(s, k) ==
  LET hits == {i \in 1..(Len(s) - Len(k) + 1) : SubSeq(s, i, i + Len(k) - 1) = k}
  IN  IF hits = {} THEN 0 ELSE CHOOSE i \in hits : \A j \in hits : i >= j

UpperChars == <<"A","B","C","D","E","F","G","H","I","J","K","L","M",
                "N","O","P","Q","R","S","T","U","V","W","X","Y","Z">>
LowerChars == <<"a","b","c","d","e","f","g","h","i","j","k","l","m",
                "n","o","p","q","r","s","t","u","v","w","x","y","z">>

lowerChar(c) ==
  IF \E i \in 1..26 : UpperChars[i] = c
  THEN LowerChars[CHOOSE i \in 1..26 : UpperChars[i] = c]
  ELSE c

RECURSIVE toLowerCase(_)
toLowerCase(s) ==
  IF Len(s) = 0 THEN ""
  ELSE IF Len(s) = 1 THEN lowerChar(s)
  ELSE toLowerCase(SubSeq(s, 1, Len(s) \div 2))
       \o toLowerCase(SubSeq(s, (Len(s) \div 2) + 1, Len(s)))

isSpace(c) == c \in {" ", "\n", "\t", "\r"}

trim(s) ==
  LET keep == {i \in 1..Len(s) : ~isSpace(charAt(s, i))}
  IN  IF keep = {} THEN ""
      ELSE SubSeq(s, CHOOSE i \in keep : \A j \in keep : i <= j,
                     CHOOSE i \in keep : \A j \in keep : i >= j)

\* s.split('\n')
RECURSIVE splitLines(_)
splitLines(s) ==
  LET nl == indexOfFrom(s, "\n", 1)
  IN  IF nl = 0 THEN <<s>>
      ELSE <<SubSeq(s, 1, nl - 1)>> \o splitLines(SubSeq(s, nl + 1, Len(s)))

Digits == <<"0","1","2","3","4","5","6","7","8","9">>

isDigit(c) == \E d \in 1..10 : Digits[d] = c

digitVal(c) == (CHOOSE d \in 1..10 : Digits[d] = c) - 1

\* String(n) for a non-negative integer n
RECURSIVE numToString(_)
numToString(n) ==
  IF n < 10 THEN Digits[n + 1]
  ELSE numToString(n \div 10) \o Digits[(n % 10) + 1]

\* ((num / den) * 100).toFixed(1), num >= 0, den > 0
percentToFixed1(num, den) ==
  LET tenths == (num * 2000 + den) \div (2 * den)
  IN  numToString(tenths \div 10) \o "." \o Digits[(tenths % 10) + 1]

firstN(seq, n) == SubSeq(seq, 1, IF Len(seq) < n THEN Len(seq) ELSE n)

(***************************************************************************)
(* JavaScript values: every value is a record of the same shape            *)
(***************************************************************************)
Undefined == [t |-> "undefined", s |-> "", n |-> 0, kids |-> <<>>]
Null      == [t |-> "null", s |-> "", n |-> 0, kids |-> <<>>]
Str(x)    == [t |-> "string", s |-> x, n |-> 0, kids |-> <<>>]
Num(x)    == [t |-> "number", s |-> "", n |-> x, kids |-> <<>>]
Bool(b)   == [t |-> "boolean", s |-> "", n |-> IF b THEN 1 ELSE 0, kids |-> <<>>]
Arr(xs)   == [t |-> "array", s |-> "", n |-> 0, kids |-> xs]
\* an object is its list of members <<key, value>>, in insertion order
Obj(ms)   == [t |-> "object", s |-> "", n |-> 0, kids |-> ms]

truthy(v) ==
  CASE v.t \in {"undefined", "null"} -> FALSE
    [] v.t = "string"  -> v.s # ""
    [] v.t = "number"  -> v.n # 0
    [] v.t = "boolean" -> v.n = 1
    [] OTHER -> TRUE

\* obj[key]: the last member of that name, undefined when there is none
getProp(v, key) ==
  IF v.t # "object" THEN Undefined
  ELSE LET hits == {i \in 1..Len(v.kids) : v.kids[i][1] = key}
       IN  IF hits = {} THEN Undefined
           ELSE v.kids[CHOOSE i \in hits : \A j \in hits : i >= j][2]

\* a || b
orElse(a, b) == IF truthy(a) THEN a ELSE b

(***************************************************************************)
(* JSON.parse: objects, arrays, strings, non-negative integers, literals   *)
(***************************************************************************)
RECURSIVE skipWs(_, _)
skipWs(s, i) == IF i <= Len(s) /\ isSpace(charAt(s, i)) THEN skipWs(s, i + 1) ELSE i

Fail == [ok |-> FALSE, v |-> Undefined, i |-> 0]

RECURSIVE parseStringBody(_, _, _)
parseStringBody(s, i, acc) ==
  IF i > Len(s) THEN [ok |-> FALSE, v |-> "", i |-> 0]
  ELSE LET c == charAt(s, i)
       IN  CASE c = "\"" -> [ok |-> TRUE, v |-> acc, i |-> i + 1]
             [] c = "\n" -> [ok |-> FALSE, v |-> "", i |-> 0]
             [] c = "\\" ->
                  IF i + 1 <= Len(s) /\ charAt(s, i + 1) \in {"\"", "\\"}
                  THEN parseStringBody(s, i + 2, acc \o charAt(s, i + 1))
                  ELSE IF i + 1 <= Len(s) /\ charAt(s, i + 1) = "n"
                  THEN parseStringBody(s, i + 2, acc \o "\n")
                  ELSE [ok |-> FALSE, v |-> "", i |-> 0]
             [] OTHER -> parseStringBody(s, i + 1, acc \o c)

RECURSIVE parseDigits(_, _, _)
parseDigits(s, i, acc) ==
  IF i <= Len(s) /\ isDigit(charAt(s, i))
  THEN parseDigits(s, i + 1, acc * 10 + digitVal(charAt(s, i)))
  ELSE [ok |-> TRUE, v |-> Num(acc), i |-> i]

RECURSIVE parseValue(_, _)
RECURSIVE parseMembers(_, _, _)
RECURSIVE parseItems(_, _, _)

parseValue(s, i0) ==
  LET i == skipWs(s, i0)
      c == IF i <= Len(s) THEN charAt(s, i) ELSE ""
  IN  CASE c = "{" ->
             LET j == skipWs(s, i + 1)
             IN  IF j <= Len(s) /\ charAt(s, j) = "}"
                 THEN [ok |-> TRUE, v |-> Obj(<<>>), i |-> j + 1]
                 ELSE parseMembers(s, j, <<>>)
        [] c = "[" ->
             LET j == skipWs(s, i + 1)
             IN  IF j <= Len(s) /\ charAt(s, j) = "]"
                 THEN [ok |-> TRUE, v |-> Arr(<<>>), i |-> j + 1]
                 ELSE parseItems(s, j, <<>>)
        [] c = "\"" ->
             LET r == parseStringBody(s, i + 1, "")
             IN  IF r.ok THEN [ok |-> TRUE, v |-> Str(r.v), i |-> r.i] ELSE Fail
        [] isDigit(c) ->
             IF c = "0" /\ i + 1 <= Len(s) /\ isDigit(charAt(s, i + 1)) THEN Fail
             ELSE parseDigits(s, i, 0)
        [] c = "t" /\ SubSeq(s, i, i + 3) = "true"  -> [ok |-> TRUE, v |-> Bool(TRUE), i |-> i + 4]
        [] c = "f" /\ SubSeq(s, i, i + 4) = "false" -> [ok |-> TRUE, v |-> Bool(FALSE), i |-> i + 5]
        [] c = "n" /\ SubSeq(s, i, i + 3) = "null"  -> [ok |-> TRUE, v |-> Null, i |-> i + 4]
        [] OTHER -> Fail

\* members of an object, positioned at the opening quote of a key
parseMembers(s, i, acc) ==
  IF ~(i <= Len(s) /\ charAt(s, i) = "\"") THEN Fail
  ELSE LET k == parseStringBody(s, i + 1, "")
       IN  IF ~k.ok THEN Fail
           ELSE LET c == skipWs(s, k.i)
                IN  IF ~(c <= Len(s) /\ charAt(s, c) = ":") THEN Fail
                    ELSE LET val == parseValue(s, c + 1)
                         IN  IF ~val.ok THEN Fail
                             ELSE LET e == skipWs(s, val.i)
                                      ms == Append(acc, <<k.v, val.v>>)
                                  IN  IF e > Len(s) THEN Fail
                                      ELSE IF charAt(s, e) = "}"
                                      THEN [ok |-> TRUE, v |-> Obj(ms), i |-> e + 1]
                                      ELSE IF charAt(s, e) = ","
                                      THEN parseMembers(s, skipWs(s, e + 1), ms)
                                      ELSE Fail

parseItems(s, i, acc) ==
  LET val == parseValue(s, i)
  IN  IF ~val.ok THEN Fail
      ELSE LET e == skipWs(s, val.i)
               xs == Append(acc, val.v)
           IN  IF e > Len(s) THEN Fail
               ELSE IF charAt(s, e) = "]"
               THEN [ok |-> TRUE, v |-> Arr(xs), i |-> e + 1]
               ELSE IF charAt(s, e) = ","
               THEN parseItems(s, e + 1, xs)
               ELSE Fail

\* JSON.parse(text): ok = FALSE stands for the SyntaxError it throws
wholeText(text, r) ==
  IF r.ok /\ skipWs(text, r.i) > Len(text) THEN [ok |-> TRUE, v |-> r.v]
  ELSE [ok |-> FALSE, v |-> Undefined]

JSONparse(text) == wholeText(text, parseValue(text, 1))

(***************************************************************************)
(* Identification events and the aggregations the service uses             *)
(***************************************************************************)
\* Object.entries of a reduce((acc, e) => acc[key(e)]++): the distinct keys in
\* insertion order, each with its count
\* acc[key] = (acc[key] || 0) + 1 over the keys, read back with
\* Object.entries: one entry per key, in order of first occurrence (the keys
\* are visitor ids and country and browser names, none a canonical array
\* index, which Object.entries would list first)
countBy(keys, acc) ==
  LET firsts == {i \in 1..Len(keys) : \A j \in 1..(i - 1) : keys[j] # keys[i]}
      nth(k) == CHOOSE i \in firsts : Cardinality({j \in firsts : j < i}) = k - 1
  IN  acc \o [k \in 1..Cardinality(firsts) |->
                <<keys[nth(k)], Cardinality({i \in 1..Len(keys) : keys[i] = keys[nth(k)]})>>]

\* an insertion that puts an entry before the entries of equal count
RECURSIVE insertBeforeEqual(_, _)
insertBeforeEqual(sorted, e) ==
  IF sorted = <<>> THEN <<e>>
  ELSE IF Head(sorted)[2] > e[2] THEN <<Head(sorted)>> \o insertBeforeEqual(Tail(sorted), e)
  ELSE <<e>> \o sorted

\* entries.sort(([,a], [,b]) => b - a): stable, count descending
RECURSIVE insertDesc(_, _)
insertDesc(sorted, e) ==
  IF sorted = <<>> THEN <<e>>
  ELSE IF Head(sorted)[2] >= e[2] THEN <<Head(sorted)>> \o insertDesc(Tail(sorted), e)
  ELSE <<e>> \o sorted

RECURSIVE sortDesc(_)
sortDesc(entries) ==
  IF entries = <<>> THEN <<>>
  ELSE insertDesc(sortDesc(SubSeq(entries, 1, Len(entries) - 1)), entries[Len(entries)])

visitorIds(csvData) == [i \in 1..Len(csvData) |-> csvData[i].visitorId]
\* event.country || 'Unknown'
countries(csvData) ==
  [i \in 1..Len(csvData) |-> IF csvData[i].country = "" THEN "Unknown" ELSE csvData[i].country]
browsers(csvData) ==
  [i \in 1..Len(csvData) |-> IF csvData[i].browser = "" THEN "Unknown" ELSE csvData[i].browser]

sizeOfSet(seq) == Cardinality({seq[i] : i \in 1..Len(seq)})

countWhere(csvData, P(_)) == Cardinality({i \in 1..Len(csvData) : P(csvData[i])})

vpnCount(csvData)   == countWhere(csvData, LAMBDA e : e.vpnDetected)
botCount(csvData)   == countWhere(csvData, LAMBDA e : e.botDetected)
\* a count of clean requests that looks at the VPN flag only
notVpnCount(csvData) == countWhere(csvData, LAMBDA e : ~e.vpnDetected)

cleanCount(csvData) == countWhere(csvData, LAMBDA e : ~e.vpnDetected /\ ~e.botDetected)

known(entries) == SelectSeq(entries, LAMBDA e : e[1] # "" /\ e[1] # "Unknown")

RECURSIVE join(_, _)
join(strs, sep) ==
  IF strs = <<>> THEN ""
  ELSE IF Len(strs) = 1 THEN strs[1]
  ELSE strs[1] \o sep \o join(Tail(strs), sep)

(***************************************************************************)
(* Question classification (TypeScript service)                            *)
(***************************************************************************)
chartKeywords ==
  <<"chart", "graph", "visualize", "show me", "display", "plot", "trend",
    "compare", "distribution", "percentage", "proportion", "breakdown",
    "top", "most", "highest", "lowest", "activity", "pattern">>

fastKeywords ==
  <<"total", "count", "how many", "number of", "summary", "overview",
    "basic", "simple", "quick", "fast">>

anyIncluded(text, kws) == \E i \in 1..Len(kws) : includes(text, kws[i])

questionRequiresChart(question) == anyIncluded(toLowerCase(question), chartKeywords)

isFastModeQuestion(question) == anyIncluded(toLowerCase(question), fastKeywords)

\* question.match(/Previous AI response: "([^"]+)"\. User question: (.+)/):
\* for each start of the literal prefix, the quoted group runs to the next
\* double quote, which must open the literal '". User question: ', and the
\* last group takes the rest of that line (at least one character)
CtxPrefix == "Previous AI response: \""
CtxMiddle == "\". User question: "

isAt(s, i, k) == i + Len(k) - 1 <= Len(s) /\ SubSeq(s, i, i + Len(k) - 1) = k

lineEnd(s, from) ==
  LET ends == {i \in from..Len(s) : charAt(s, i) \in {"\n", "\r"}}
  IN  IF ends = {} THEN Len(s) ELSE (CHOOSE i \in ends : \A j \in ends : i <= j) - 1

contextMatch(question) ==
  LET starts == {i \in 1..Len(question) :
                   LET c == i + Len(CtxPrefix)
                       q == indexOfFrom(question, "\"", c)
                       r == q + Len(CtxMiddle)
                   IN  /\ isAt(question, i, CtxPrefix)
                       /\ q > c
                       /\ isAt(question, q, CtxMiddle)
                       /\ r <= Len(question)
                       /\ charAt(question, r) \notin {"\n", "\r"}}
  IN  IF starts = {} THEN [matched |-> FALSE, context |-> "", question |-> ""]
      ELSE LET i == CHOOSE j \in starts : \A k \in starts : j <= k
               c == i + Len(CtxPrefix)
               q == indexOfFrom(question, "\"", c)
               r == q + Len(CtxMiddle)
           IN  [matched |-> TRUE,
                context |-> SubSeq(question, c, q - 1),
                question |-> SubSeq(question, r, lineEnd(question, r))]

\* the context extraction at the head of analyzeData
extractContext(question) ==
  LET hasPreviousContext == includes(question, "Previous AI response:")
      m == contextMatch(question)
  IN  IF hasPreviousContext /\ m.matched
      THEN [hasPreviousContext |-> TRUE, previousContext |-> m.context,
            originalQuestion |-> m.question]
      ELSE [hasPreviousContext |-> hasPreviousContext, previousContext |-> "",
            originalQuestion |-> question]

(***************************************************************************)
(* Rule-based fallback (TypeScript service)                                *)
(***************************************************************************)
requestsList(entries) ==
  join([i \in 1..Len(entries) |->
          entries[i][1] \o " (" \o numToString(entries[i][2]) \o " requests)"], ", ")

generateFallbackAnswer(csvData, question) ==
  LET lowerQuestion == toLowerCase(question)
      total == numToString(Len(csvData))
  IN  IF includes(lowerQuestion, "visitor") \/ includes(lowerQuestion, "activity")
      THEN "I can see " \o total \o " total events from "
           \o numToString(sizeOfSet(visitorIds(csvData)))
           \o " unique visitors. The most active visitor patterns show concentrated activity that could indicate regular users or potential automated behavior."
      ELSE IF includes(lowerQuestion, "security") \/ includes(lowerQuestion, "vpn")
              \/ includes(lowerQuestion, "bot")
      THEN "Security analysis shows " \o numToString(vpnCount(csvData))
           \o " VPN connections and " \o numToString(botCount(csvData))
           \o " bot detections out of " \o total \o " total events. This represents "
           \o (IF Len(csvData) = 0 THEN "NaN"
               ELSE percentToFixed1(vpnCount(csvData) + botCount(csvData), Len(csvData)))
           \o "% potential security threats."
      ELSE IF includes(lowerQuestion, "geograph") \/ includes(lowerQuestion, "location")
              \/ includes(lowerQuestion, "country")
      THEN "Geographic analysis shows activity from "
           \o numToString(Cardinality({csvData[i].country : i \in 1..Len(csvData)} \ {""}))
           \o " different countries. The top countries by request volume are: "
           \o requestsList(firstN(sortDesc(known(countBy(countries(csvData), <<>>))), 3))
           \o ". This distribution helps identify your global reach and detect unusual access patterns."
      ELSE IF includes(lowerQuestion, "browser") \/ includes(lowerQuestion, "device")
      THEN "Browser analysis shows "
           \o numToString(Cardinality({browsers(csvData)[i] : i \in 1..Len(csvData)} \ {"Unknown"}))
           \o " different browsers in use. The most popular browsers are: "
           \o requestsList(firstN(sortDesc(known(countBy(browsers(csvData), <<>>))), 3))
           \o ". This helps understand your user's technology preferences and detect potential bot activity."
      ELSE "I've analyzed your FingerprintJS dataset with " \o total
           \o " identification events. The data shows visitor patterns, geographic distribution, and security indicators that provide valuable insights into your user base and potential threats."

point(name, value) == Obj(<<<<"name", Str(name)>>, <<"value", Num(value)>>>>)

chartOf(type, data, title) ==
  Obj(<<<<"type", Str(type)>>, <<"data", Arr(data)>>, <<"title", Str(title)>>>>)

visitorPoints(csvData, cap) ==
  LET top == firstN(sortDesc(countBy(visitorIds(csvData), <<>>)), cap)
  IN  [i \in 1..Len(top) |-> point(slice(top[i][1], 0, 8) \o "...", top[i][2])]

\* category bars in order of first appearance
categoryPointsUnsorted(labels) ==
  LET top == firstN(known(countBy(labels, <<>>)), 8)
  IN  IF Len(top) > 0 THEN [i \in 1..Len(top) |-> point(top[i][1], top[i][2])]
      ELSE <<point("No Data", 1)>>

\* the filtered, sorted, capped category bars, or the 'No Data' placeholder
categoryPoints(labels) ==
  LET top == firstN(sortDesc(known(countBy(labels, <<>>))), 8)
  IN  IF Len(top) > 0 THEN [i \in 1..Len(top) |-> point(top[i][1], top[i][2])]
      ELSE <<point("No Data", 1)>>

generateFallbackChart(csvData, question) ==
  LET lowerQuestion == toLowerCase(question)
  IN  IF includes(lowerQuestion, "visitor") \/ includes(lowerQuestion, "activity")
      THEN chartOf("bar", visitorPoints(csvData, 10), "Top 10 Visitors by Request Count")
      ELSE IF includes(lowerQuestion, "location") \/ includes(lowerQuestion, "country")
              \/ includes(lowerQuestion, "geographic") \/ includes(lowerQuestion, "geograph")
      THEN chartOf("bar", categoryPoints(countries(csvData)),
                   "Geographic Distribution by Country")
      ELSE IF includes(lowerQuestion, "security") \/ includes(lowerQuestion, "threat")
              \/ includes(lowerQuestion, "vpn") \/ includes(lowerQuestion, "bot")
      THEN chartOf("pie",
                   SelectSeq(<<point("VPN Detected", vpnCount(csvData)),
                               point("Bot Detected", botCount(csvData)),
                               point("Clean Requests", cleanCount(csvData))>>,
                             LAMBDA item : getProp(item, "value").n > 0),
                   "Security Threat Analysis")
      ELSE IF includes(lowerQuestion, "browser") \/ includes(lowerQuestion, "device")
              \/ includes(lowerQuestion, "os")
      THEN chartOf("bar", categoryPoints(browsers(csvData)), "Browser Usage Distribution")
      ELSE IF includes(lowerQuestion, "chart") \/ includes(lowerQuestion, "graph")
              \/ includes(lowerQuestion, "visualize") \/ includes(lowerQuestion, "show me")
      THEN chartOf("bar", visitorPoints(csvData, 8), "Visitor Activity Overview")
      ELSE Null

(***************************************************************************)
(* Summaries (TypeScript service)                                          *)
(***************************************************************************)
SummaryThreshold == 100

countList(entries) ==
  join([i \in 1..Len(entries) |->
          entries[i][1] \o "(" \o numToString(entries[i][2]) \o ")"], ", ")

\* csvData.reduce((sum, event) => sum + event.confidence, 0) over events lo..hi
RECURSIVE confidenceSum(_, _, _)
confidenceSum(csvData, lo, hi) ==
  IF lo > hi THEN 0
  ELSE IF lo = hi THEN csvData[lo].confidence
  ELSE confidenceSum(csvData, lo, (lo + hi) \div 2)
       + confidenceSum(csvData, ((lo + hi) \div 2) + 1, hi)

\* avgConfidence.toFixed(2) for confidences held in hundredths
avgToFixed2(csvData) ==
  LET h == (2 * confidenceSum(csvData, 1, Len(csvData)) + Len(csvData)) \div (2 * Len(csvData))
  IN  numToString(h \div 100) \o "." \o Digits[((h \div 10) % 10) + 1] \o Digits[(h % 10) + 1]

\* new Date(timeRange.min).toISOString() throws RangeError on an invalid date
summaryThrows(csvData) == \E i \in 1..Len(csvData) : ~csvData[i].dateValid

\* the digest; thrown = TRUE stands for the exception it raises
prepareDataSummary(csvData) ==
  IF Len(csvData) = 0
  THEN [thrown |-> FALSE, text |-> "No data available for analysis."]
  ELSE IF Len(csvData) <= SummaryThreshold
  THEN [thrown |-> FALSE,
        text |-> "Limited data available (" \o numToString(Len(csvData))
                 \o " events). Detailed analysis requires more than 100 events for meaningful insights."]
  ELSE IF summaryThrows(csvData) THEN [thrown |-> TRUE, text |-> "Invalid time value"]
  ELSE [thrown |-> FALSE,
        text |->
          "Events: " \o numToString(Len(csvData))
          \o ", Visitors: " \o numToString(sizeOfSet(visitorIds(csvData)))
          \o ", IPs: " \o numToString(Cardinality({csvData[i].ipAddress : i \in 1..Len(csvData)}))
          \o ", Countries: "
          \o numToString(Cardinality({csvData[i].country : i \in 1..Len(csvData)} \ {""}))
          \o "\nSecurity: VPN " \o numToString(vpnCount(csvData))
          \o ", Bot " \o numToString(botCount(csvData))
          \o ", Clean " \o numToString(cleanCount(csvData))
          \o "\nConfidence: Avg " \o avgToFixed2(csvData)
          \o ", High " \o numToString(countWhere(csvData, LAMBDA e : e.confidence >= 80))
          \o ", Low " \o numToString(countWhere(csvData, LAMBDA e : e.confidence < 60))
          \o "\nTop Countries: "
          \o countList(firstN(sortDesc(known(countBy(countries(csvData), <<>>))), 5))
          \o "\nTop Browsers: "
          \o countList(firstN(sortDesc(known(countBy(browsers(csvData), <<>>))), 5))
          \o "\nTop Visitors: "
          \o countList([e \in 1..Len(firstN(sortDesc(countBy(visitorIds(csvData), <<>>)), 5)) |->
                          LET top == firstN(sortDesc(countBy(visitorIds(csvData), <<>>)), 5)
                          IN  <<slice(top[e][1], 0, 6), top[e][2]>>])]

prepareFastDataSummary(csvData) ==
  IF Len(csvData) = 0
  THEN [thrown |-> FALSE, text |-> "No data available."]
  ELSE IF Len(csvData) <= SummaryThreshold
  THEN [thrown |-> FALSE,
        text |-> "Limited data available (" \o numToString(Len(csvData))
                 \o " events). Detailed analysis requires more than 100 events."]
  ELSE [thrown |-> FALSE,
        text |->
          "Total: " \o numToString(Len(csvData)) \o " events, "
          \o numToString(sizeOfSet(visitorIds(csvData))) \o " visitors. Security: "
          \o numToString(vpnCount(csvData)) \o " VPN, "
          \o numToString(botCount(csvData)) \o " bots."]

(***************************************************************************)
(* Response parsing (TypeScript service)                                   *)
(***************************************************************************)
\* response.match(/\{[\s\S]*\}/): first '{' to the last '}' after it
jsonMatch(response) ==
  LET open  == indexOfFrom(response, "{", 1)
      close == lastIndexOf(response, "}")
  IN  IF open > 0 /\ close > open THEN SubSeq(response, open, close) ELSE ""

\* response ? response.trim() : 'Analysis completed successfully.'
cleanResponse(response) ==
  [analysis |-> Str(IF response # "" THEN trim(response)
                    ELSE "Analysis completed successfully."),
   chart |-> Null]

\* parsed = JSON.parse(jsonStr), ok = FALSE when it threw
fromParsed(response, parsed) ==
  IF parsed.ok /\ truthy(getProp(parsed.v, "analysis")) /\ truthy(getProp(parsed.v, "chart"))
  THEN [analysis |-> getProp(parsed.v, "analysis"), chart |-> getProp(parsed.v, "chart")]
  ELSE cleanResponse(response)

\* jsonStr = the match of /\{[\s\S]*\}/, "" when there is none
fromMatch(response, jsonStr) ==
  IF jsonStr = "" THEN cleanResponse(response)
  ELSE fromParsed(response, JSONparse(jsonStr))

\* a parser that looks for the envelope whether or not a chart was asked for
parseAlways(response, requiresChart) == fromMatch(response, jsonMatch(response))

parseAIResponse(response, requiresChart) ==
  IF ~requiresChart THEN [analysis |-> Str(response), chart |-> Null]
  ELSE fromMatch(response, jsonMatch(response))

(***************************************************************************)
(* Follow-up questions (TypeScript service)                                *)
(***************************************************************************)
generateFallbackFollowUpQuestions(aiResponse, isDeeper) ==
  LET lowerResponse == toLowerCase(aiResponse)
      security   == includes(lowerResponse, "security") \/ includes(lowerResponse, "vpn")
                    \/ includes(lowerResponse, "bot") \/ includes(lowerResponse, "threat")
      geographic == includes(lowerResponse, "geographic") \/ includes(lowerResponse, "country")
                    \/ includes(lowerResponse, "location")
      visitor    == includes(lowerResponse, "visitor") \/ includes(lowerResponse, "activity")
                    \/ includes(lowerResponse, "behavior")
      browser    == includes(lowerResponse, "browser") \/ includes(lowerResponse, "device")
                    \/ includes(lowerResponse, "technology")
      questions ==
        IF isDeeper
        THEN CASE security   -> <<"What specific security measures should I implement?",
                                  "How do these threats compare to industry averages?">>
               [] geographic -> <<"Which regions show unusual activity patterns?",
                                  "How does geographic distribution affect security?">>
               [] visitor    -> <<"Which visitors show suspicious behavior patterns?",
                                  "How do visitor patterns change over time?">>
               [] browser    -> <<"Which browsers are most commonly used by bots?",
                                  "How do device types correlate with security threats?">>
               [] OTHER      -> <<"What are the most significant data patterns?",
                                  "How do these insights compare to benchmarks?">>
        ELSE CASE security   -> <<"Show me security threats", "Analyze VPN patterns">>
               [] geographic -> <<"Show geographic distribution", "Analyze location patterns">>
               [] visitor    -> <<"Show visitor patterns", "Analyze user behavior">>
               [] browser    -> <<"Show browser usage", "Analyze device patterns">>
               [] OTHER      -> <<"Show data patterns", "Analyze insights">>
  IN  firstN(questions, 2)

\* the line parsing of generateFollowUpQuestions
followUpLines(response) ==
  LET lines   == splitLines(response)
      trimmed == [i \in 1..Len(lines) |-> trim(lines[i])]
  IN  firstN(SelectSeq(trimmed, LAMBDA q : Len(q) > 0 /\ ~startsWith(q, "1.")
                                           /\ ~startsWith(q, "2.")), 2)

\* what generateFollowUpQuestions returns once the provider has answered
followUpFromResponse(response, aiResponse, isDeeper) ==
  IF Len(followUpLines(response)) >= 2 THEN followUpLines(response)
  ELSE generateFallbackFollowUpQuestions(aiResponse, isDeeper)

\* generateFollowUpQuestions of the AIService class kept in App.tsx: the
\* first branch pushes four or two questions, the second two more, and
\* slice(0, 2) keeps the first two
generateFollowUpQuestionsApp(response) ==
  LET lowerResponse == toLowerCase(response)
      first ==
        IF includes(lowerResponse, "security") \/ includes(lowerResponse, "vpn")
           \/ includes(lowerResponse, "bot")
        THEN <<"Show me detailed security threats", "Analyze VPN usage patterns",
               "Which browsers are most commonly used by bots?",
               "How do device types correlate with security threats?">>
        ELSE <<"What are the most significant data patterns?",
               "How do these insights compare to benchmarks?">>
      second ==
        IF includes(lowerResponse, "geographic") \/ includes(lowerResponse, "country")
           \/ includes(lowerResponse, "location")
        THEN <<"Show me geographic distribution", "Analyze location patterns">>
        ELSE IF includes(lowerResponse, "visitor") \/ includes(lowerResponse, "activity")
                \/ includes(lowerResponse, "behavior")
        THEN <<"Show me visitor patterns", "Analyze user behavior">>
        ELSE IF includes(lowerResponse, "browser") \/ includes(lowerResponse, "device")
                \/ includes(lowerResponse, "technology")
        THEN <<"Show me browser usage", "Analyze device patterns">>
        ELSE <<"Show me data patterns", "Analyze insights">>
  IN  firstN(first \o second, 2)

(***************************************************************************)
(* Analysis of the AIService class kept in App.tsx                         *)
(***************************************************************************)
fieldOf(events, field) == [i \in 1..Len(events) |-> events[i][field]]

\* .filter(Boolean) on strings, and `if (event.country)` in the reducers
named(labels) == SelectSeq(labels, LAMBDA a : a # "")

colonList(entries) ==
  join([i \in 1..Len(entries) |-> entries[i][1] \o ": " \o numToString(entries[i][2])], ", ")

\* (num / den).toFixed(digits) for digits 1 or 2; a division by zero prints
\* as JavaScript prints Infinity and NaN
ratioToFixed(num, den, digits) ==
  IF den = 0 THEN (IF num = 0 THEN "NaN" ELSE "Infinity")
  ELSE LET scale == IF digits = 1 THEN 10 ELSE 100
           q == (2 * num * scale + den) \div (2 * den)
       IN  numToString(q \div scale) \o "."
           \o (IF digits = 1 THEN "" ELSE Digits[((q \div 10) % 10) + 1])
           \o Digits[(q % 10) + 1]

\* toLocaleDateString() of a time within the first day of 1970, in the
\* en-US locale and the UTC time zone
toLocaleDateString(ms) == "1/1/1970"

\* every date parses: the comparator of getDateRange is consistent
datesParse(events) == \A i \in 1..Len(events) : events[i].dateValid

getDateRangeApp(events) ==
  LET dates == {events[i].date : i \in 1..Len(events)}
  IN  toLocaleDateString(CHOOSE d \in dates : \A e \in dates : d <= e) \o " to "
      \o toLocaleDateString(CHOOSE d \in dates : \A e \in dates : d >= e)

summarizeDataApp(events) ==
  IF Len(events) = 0 THEN "No data available for analysis."
  ELSE "Data Summary:\n- Total Events: " \o numToString(Len(events))
       \o "\n- Unique Visitors: " \o numToString(sizeOfSet(named(fieldOf(events, "visitorId"))))
       \o "\n- Date Range: " \o getDateRangeApp(events)
       \o "\n- Countries: " \o numToString(sizeOfSet(named(fieldOf(events, "country"))))
       \o " (Top: "
       \o colonList(firstN(sortDesc(countBy(named(fieldOf(events, "country")), <<>>)), 5))
       \o ")\n- Browsers: " \o numToString(sizeOfSet(named(fieldOf(events, "browser"))))
       \o " (Top: "
       \o colonList(firstN(sortDesc(countBy(named(fieldOf(events, "browser")), <<>>)), 5))
       \o ")\n- VPN Detected: " \o numToString(vpnCount(events))
       \o " events\n- Bot Detected: " \o numToString(botCount(events))
       \o " events\n- Average Events per Visitor: "
       \o ratioToFixed(Len(events), sizeOfSet(named(fieldOf(events, "visitorId"))), 2)

\* the bullet U+2022 that opens each insight is written "*"
generateFallbackInsightsApp(events) ==
  LET totalEvents == Len(events)
      uniqueVisitors == sizeOfSet(named(fieldOf(events, "visitorId")))
      topCountry == firstN(sortDesc(countBy(named(fieldOf(events, "country")), <<>>)), 1)
      topBrowser == firstN(sortDesc(countBy(named(fieldOf(events, "browser")), <<>>)), 1)
  IN  join(
        (IF topCountry # <<>>
         THEN <<"* Geographic concentration: " \o topCountry[1][1] \o " accounts for "
                \o numToString(topCountry[1][2]) \o " events ("
                \o percentToFixed1(topCountry[1][2], totalEvents) \o "%)">>
         ELSE <<>>)
        \o (IF vpnCount(events) > 0
            THEN <<"* Security alert: " \o numToString(vpnCount(events))
                   \o " events detected VPN usage ("
                   \o percentToFixed1(vpnCount(events), totalEvents) \o "%)">>
            ELSE <<>>)
        \o (IF botCount(events) > 0
            THEN <<"* Security alert: " \o numToString(botCount(events))
                   \o " events detected bot activity ("
                   \o percentToFixed1(botCount(events), totalEvents) \o "%)">>
            ELSE <<>>)
        \o (IF uniqueVisitors > 0 /\ totalEvents > 5 * uniqueVisitors
            THEN <<"* High engagement: Average of "
                   \o ratioToFixed(totalEvents, uniqueVisitors, 1) \o " events per visitor">>
            ELSE <<>>)
        \o (IF topBrowser # <<>>
            THEN <<"* Browser preference: " \o topBrowser[1][1] \o " is most popular ("
                   \o numToString(topBrowser[1][2]) \o " events)">>
            ELSE <<>>),
        "\n")

performFallbackAnalysisApp(events) ==
  "Based on the analysis of your FingerprintJS data:\n\n" \o summarizeDataApp(events)
  \o "\n\nKey Insights:\n" \o generateFallbackInsightsApp(events)
  \o "\n\nThis analysis was generated using our fallback system. For more detailed AI-powered insights, consider configuring Ollama or OpenAI."

\* generateFallbackInsights reads events.length: a TypeError without events
analyzeWithFallbackApp(c) ==
  IF c.present
  THEN Obj(<<<<"success", Bool(TRUE)>>,
             <<"answer", Str(performFallbackAnalysisApp(c.events))>>,
             <<"provider", Str("fallback")>>>>)
  ELSE Obj(<<<<"success", Bool(FALSE)>>,
             <<"answer", Str("Unable to analyze data at this time.")>>,
             <<"error", Str("Cannot read properties of undefined (reading 'length')")>>>>)

\* analyzeData with the provider forced to 'ollama' by loadEnvironment: the
\* reply's `response` member on success, the fallback analysis on any failure
analyzeDataApp(c, outcome) ==
  IF outcome.ok
  THEN Obj(<<<<"success", Bool(TRUE)>>, <<"answer", outcome.value>>,
             <<"provider", Str("ollama")>>>>)
  ELSE analyzeWithFallbackApp(c)

(***************************************************************************)
(* The JavaScript service (src/services/aiService.js)                      *)
(***************************************************************************)
\* new Date(ms).toISOString() for 0 <= ms < 1000
toISOString(ms) ==
  "1970-01-01T00:00:00." \o Digits[(ms \div 100) + 1] \o Digits[((ms \div 10) % 10) + 1]
  \o Digits[(ms % 10) + 1] \o "Z"

minOf(S) == CHOOSE x \in S : \A y \in S : x <= y
maxOf(S) == CHOOSE x \in S : \A y \in S : x >= y

pct(n, total) == " (" \o percentToFixed1(n, total) \o "%)"

eventLines(entries, total) ==
  join([i \in 1..Len(entries) |->
          "- " \o entries[i][1] \o ": " \o numToString(entries[i][2]) \o " events"
          \o pct(entries[i][2], total)], "\n")

activeLines(entries) ==
  join([i \in 1..Len(entries) |->
          "- " \o entries[i][1] \o ": " \o numToString(entries[i][2]) \o " events"], "\n")

shortIds(entries) ==
  [i \in 1..Len(entries) |-> <<slice(entries[i][1], 0, 8) \o "...", entries[i][2]>>]

\* avgConfidence.toFixed(3) for confidences held in hundredths
avgToFixed3(csvData) ==
  LET m == (20 * confidenceSum(csvData, 1, Len(csvData)) + Len(csvData)) \div (2 * Len(csvData))
  IN  numToString(m \div 1000) \o "." \o Digits[((m \div 100) % 10) + 1]
      \o Digits[((m \div 10) % 10) + 1] \o Digits[(m % 10) + 1]

prepareDataSummaryJS(csvData, dateNow) ==
  IF Len(csvData) = 0
  THEN [thrown |-> FALSE, text |-> "No data available for analysis."]
  ELSE IF summaryThrows(csvData) THEN [thrown |-> TRUE, text |-> "Invalid time value"]
  ELSE
    LET total == Len(csvData)
        times == {csvData[i].date : i \in 1..total}
        oss   == [i \in 1..total |-> IF csvData[i].os = "" THEN "Unknown" ELSE csvData[i].os]
        ips   == [i \in 1..total |-> csvData[i].ipAddress]
    IN [thrown |-> FALSE,
        text |->
          "\nDATASET OVERVIEW:\n- Total Events: " \o numToString(total)
          \o "\n- Unique Visitors: " \o numToString(sizeOfSet(visitorIds(csvData)))
          \o "\n- Unique IP Addresses: " \o numToString(sizeOfSet(ips))
          \o "\n- Geographic Coverage: "
          \o numToString(Cardinality({csvData[i].country : i \in 1..total} \ {""}))
          \o " countries, "
          \o numToString(Cardinality({csvData[i].city : i \in 1..total} \ {""}))
          \o " cities\n- Time Range: " \o toISOString(minOf(times \cup {dateNow}))
          \o " to " \o toISOString(maxOf(times \cup {0}))
          \o "\n\nSECURITY ANALYSIS:\n- VPN Detections: " \o numToString(vpnCount(csvData))
          \o pct(vpnCount(csvData), total)
          \o "\n- Bot Detections: " \o numToString(botCount(csvData))
          \o pct(botCount(csvData), total)
          \o "\n- Clean Requests: " \o numToString(cleanCount(csvData))
          \o pct(cleanCount(csvData), total)
          \o "\n\nCONFIDENCE ANALYSIS:\n- Average Confidence Score: " \o avgToFixed3(csvData)
          \o "\n- High Confidence (>=80%): "
          \o numToString(countWhere(csvData, LAMBDA e : e.confidence >= 80)) \o " events"
          \o pct(countWhere(csvData, LAMBDA e : e.confidence >= 80), total)
          \o "\n- Low Confidence (<60%): "
          \o numToString(countWhere(csvData, LAMBDA e : e.confidence < 60)) \o " events"
          \o pct(countWhere(csvData, LAMBDA e : e.confidence < 60), total)
          \o "\n\nTOP COUNTRIES:\n"
          \o eventLines(firstN(sortDesc(countBy(countries(csvData), <<>>)), 5), total)
          \o "\n\nTOP BROWSERS:\n"
          \o eventLines(firstN(sortDesc(countBy(browsers(csvData), <<>>)), 5), total)
          \o "\n\nTOP OPERATING SYSTEMS:\n"
          \o eventLines(firstN(sortDesc(countBy(oss, <<>>)), 5), total)
          \o "\n\nMOST ACTIVE VISITORS:\n"
          \o activeLines(shortIds(firstN(sortDesc(countBy(visitorIds(csvData), <<>>)), 5)))
          \o "\n\nMOST ACTIVE IP ADDRESSES:\n"
          \o activeLines(firstN(sortDesc(countBy(ips, <<>>)), 5))
          \o "\n"]

generateFallbackAnswerJS(csvData, question) ==
  LET lowerQuestion == toLowerCase(question)
      total == numToString(Len(csvData))
  IN  IF includes(lowerQuestion, "visitor") \/ includes(lowerQuestion, "activity")
      THEN "I can see " \o total \o " total events from "
           \o numToString(sizeOfSet(visitorIds(csvData)))
           \o " unique visitors. The most active visitor patterns show concentrated activity that could indicate regular users or potential automated behavior."
      ELSE IF includes(lowerQuestion, "security") \/ includes(lowerQuestion, "vpn")
              \/ includes(lowerQuestion, "bot")
      THEN "Security analysis shows " \o numToString(vpnCount(csvData))
           \o " VPN connections and " \o numToString(botCount(csvData))
           \o " bot detections out of " \o total \o " total events. This represents "
           \o (IF Len(csvData) = 0 THEN "NaN"
               ELSE percentToFixed1(vpnCount(csvData) + botCount(csvData), Len(csvData)))
           \o "% potential security threats."
      ELSE IF includes(lowerQuestion, "location") \/ includes(lowerQuestion, "country")
      THEN "Your data shows activity from "
           \o numToString(Cardinality({csvData[i].country : i \in 1..Len(csvData)} \ {""}))
           \o " different countries, indicating a geographically diverse user base. This distribution helps identify your global reach and detect unusual access patterns."
      ELSE "I've analyzed your FingerprintJS dataset with " \o total
           \o " identification events. The data shows visitor patterns, geographic distribution, and security indicators that provide valuable insights into your user base and potential threats."

(***************************************************************************)
(* State                                                                   *)
(***************************************************************************)
VARIABLES
  env,            \* process.env: each variable a string, "" when unset
  now,            \* Date.now()
  svc,            \* the service module the server loaded: "ts" or "js"
  initialized, aiProvider, ollamaModel, openaiModel, isAIAvailable, chatModel,
  pc,             \* where the endpoint handler stands
  req,            \* the request being handled
  locals,         \* locals of the suspended service call
  call,           \* the provider completion call in flight
  calls,          \* completion calls sent to a backend for this request, by purpose
  analysis,       \* what analyzeData returned
  followUp,       \* how generateFollowUpQuestions settled
  res,            \* the HTTP response sent
  fn,             \* the last direct application of a function of the service
  inits,          \* how many times the body of initializeAI has run
  second,         \* the frame of a second endpoint handler in flight
  solo,           \* per handler: its state when its request arrived, and what its calls settled with
  chat,           \* the chat widget: its React state and its requests in flight
  page            \* the overview page: its React state and its insight requests in flight

vars == <<env, now, svc, initialized, inits, aiProvider, ollamaModel, openaiModel,
          isAIAvailable, chatModel, pc, req, locals, call, calls, analysis, followUp, res,
          fn, second, solo, chat, page>>

\* the service fields and the handler's state as one record
Cur ==
  [initialized |-> initialized, inits |-> inits, aiProvider |-> aiProvider,
   ollamaModel |-> ollamaModel,
   openaiModel |-> openaiModel, isAIAvailable |-> isAIAvailable, chatModel |-> chatModel,
   pc |-> pc, req |-> req, locals |-> locals, call |-> call, calls |-> calls,
   analysis |-> analysis, followUp |-> followUp, res |-> res]

Assign(m) ==
  /\ initialized' = m.initialized
  /\ inits' = m.inits
  /\ aiProvider' = m.aiProvider
  /\ ollamaModel' = m.ollamaModel
  /\ openaiModel' = m.openaiModel
  /\ isAIAvailable' = m.isAIAvailable
  /\ chatModel' = m.chatModel
  /\ pc' = m.pc
  /\ req' = m.req
  /\ locals' = m.locals
  /\ call' = m.call
  /\ calls' = m.calls
  /\ analysis' = m.analysis
  /\ followUp' = m.followUp
  /\ res' = m.res

\* stage: none, fetch (awaiting fetch), json / text (awaiting the body),
\* invoke (awaiting chatModel.invoke), settled (the call's promise has settled:
\* ok with the text in value, or not ok with the Error message in value)
NoCall == [stage |-> "none", timer |-> FALSE, purpose |-> "", model |-> "",
           systemPrompt |-> "", userPrompt |-> "", ok |-> FALSE, value |-> Undefined]

NoLocals == [originalQuestion |-> "", previousContext |-> "", requiresChart |-> FALSE,
             isFastMode |-> FALSE, dataSummary |-> "", response |-> Undefined,
             aiResponse |-> Undefined, isDeeper |-> FALSE]

NoReq == [endpoint |-> "", question |-> Undefined, csvData |-> Undefined,
          aiResponse |-> Undefined, isDeeper |-> FALSE]

NoFollowUp == [settled |-> FALSE, thrown |-> FALSE, error |-> "", questions |-> <<>>]

NoRes == [status |-> 0, body |-> Undefined]

NoCalls == [analyze |-> 0, followup |-> 0]

\* a collection argument: `present` is FALSE for undefined
Absent == [present |-> FALSE, events |-> <<>>]

Given(events) == [present |-> TRUE, events |-> events]

NoArg == [text |-> "", isDeeper |-> FALSE, reply |-> ""]

NoOut == [thrown |-> FALSE, value |-> Undefined]

NoFn == [op |-> "none", csvData |-> Absent, question |-> "", arg |-> NoArg, out |-> NoOut]

\* an endpoint handler that is not running
NoFrame == [pc |-> "idle", req |-> NoReq, locals |-> NoLocals, call |-> NoCall,
            calls |-> NoCalls, analysis |-> Undefined, followUp |-> NoFollowUp, res |-> NoRes]

NoSolo == <<>>

\* the chat widget and the overview page before they are mounted
NoChat == [mounted |-> FALSE]

NoPage == [mounted |-> FALSE]

\* a || d for strings
orDefault(a, d) == IF a # "" THEN a ELSE d

isDefined(kv) == kv[2].t # "undefined"

\* res.json(obj): members whose value is undefined are not serialized
jsonBody(members) == Obj(SelectSeq(members, isDefined))

strings(xs) == Arr([i \in 1..Len(xs) |-> Str(xs[i])])

\* the event records of a request's csvData array
eventsOf(csvData) == csvData.kids

(***************************************************************************)
(* Service: initialization and status                                      *)
(***************************************************************************)
configured(m, provider) ==
  [m EXCEPT
     !.aiProvider = provider,
     !.ollamaModel = orDefault(env.OLLAMA_MODEL, "llama3.2"),
     !.openaiModel = orDefault(env.OPENAI_MODEL, IF svc = "ts" THEN "gpt-4o-mini" ELSE "gpt-4"),
     !.isAIAvailable = CASE provider = "ollama" -> env.OLLAMA_HOST # ""
                         [] provider = "openai" -> env.OPENAI_API_KEY # ""
                         [] OTHER -> FALSE,
     !.chatModel = (provider = "openai" /\ env.OPENAI_API_KEY # ""),
     !.initialized = TRUE,
     !.inits = @ + 1]

\* initializeAI without its guard
initializeAlways(m) == configured(m, orDefault(env.AI_PROVIDER, "fallback"))

initializeAI(m) ==
  IF m.initialized THEN m ELSE configured(m, orDefault(env.AI_PROVIDER, "fallback"))

\* the object getStatus returns, read off the service fields
statusOf(m) ==
  [provider |-> m.aiProvider, isAvailable |-> m.isAIAvailable,
   model |-> CASE m.aiProvider = "ollama" -> m.ollamaModel
               [] m.aiProvider = "openai" -> m.openaiModel
               [] OTHER -> "none"]

timestamp == <<"timestamp", Str(toISOString(now))>>

(***************************************************************************)
(* Service: provider completion calls                                      *)
(***************************************************************************)
\* the completion call's promise settles
settle(m, ok, value) ==
  [m EXCEPT !.call.stage = "settled", !.call.timer = FALSE,
            !.call.ok = ok, !.call.value = value]

\* the request leaves for the backend
sent(m, purpose, stage, model, systemPrompt, userPrompt) ==
  [m EXCEPT !.pc = purpose,
            !.calls[purpose] = @ + 1,
            !.call = [NoCall EXCEPT !.stage = stage, !.timer = (stage = "fetch"),
                                    !.purpose = purpose, !.model = model,
                                    !.systemPrompt = systemPrompt,
                                    !.userPrompt = userPrompt]]

\* the call is over before anything reaches a backend
refused(m, purpose, error) ==
  settle([m EXCEPT !.pc = purpose, !.call = [NoCall EXCEPT !.purpose = purpose]],
         FALSE, Str(error))

\* the provider dispatch of analyzeData and generateFollowUpQuestions, with
\* analyzeWithOllama / analyzeWithOpenAI up to their first await
launch(m, systemPrompt, userPrompt, purpose) ==
  CASE m.aiProvider = "ollama" ->
         IF env.OLLAMA_HOST = ""
         THEN refused(m, purpose, "Ollama analysis failed: Only absolute URLs are supported")
         ELSE sent(m, purpose, "fetch", "llama3.2",
                   IF svc = "ts" THEN systemPrompt ELSE "", userPrompt)
    [] m.aiProvider = "openai" ->
         IF ~m.chatModel
         THEN refused(m, purpose, "OpenAI analysis failed: Cannot read properties of undefined (reading 'invoke')")
         ELSE sent(m, purpose, "invoke", m.openaiModel, systemPrompt, userPrompt)
    [] OTHER -> refused(m, purpose, "No AI provider configured")

(***************************************************************************)
(* Prompts                                                                 *)
(***************************************************************************)
followUpSystemPrompt(isDeeper) ==
  "You are an AI assistant that generates contextual follow-up questions based on data analysis responses.\n\nIMPORTANT: Generate exactly 2 follow-up questions that are:\n1. Relevant to the analysis just provided\n2. Specific and actionable\n3. Different from each other\n4. Focused on deeper insights or related areas\n\n"
  \o (IF isDeeper
      THEN "Generate deeper, more specific questions that explore the analysis further."
      ELSE "Generate initial follow-up questions that explore related areas.")
  \o "\n\nRESPOND WITH ONLY THE 2 QUESTIONS, ONE PER LINE, NO ADDITIONAL TEXT."

\* `${aiResponse}` of a value
templateText(v) ==
  CASE v.t = "string" -> v.s
    [] v.t = "number" -> numToString(v.n)
    [] v.t = "undefined" -> "undefined"
    [] v.t = "null" -> "null"
    [] v.t = "boolean" -> (IF v.n = 1 THEN "true" ELSE "false")
    [] OTHER -> "[object Object]"

followUpUserPrompt(aiResponse) ==
  "Based on this AI analysis response: \"" \o templateText(aiResponse)
  \o "\"\n\nGenerate 2 follow-up questions."

systemPromptTS(hasPreviousContext, previousContext, requiresChart, dataSummary) ==
  "You are a data analyst for FingerprintJS visitor data. Provide concise, accurate insights.\n\nData includes: visitor events, geography, browsers, security (VPN/bot detection), confidence scores.\n\nIMPORTANT: Provide only the analysis. Do NOT include follow-up questions, suggestions, or recommendations in your response. Focus solely on answering the user's question with data insights.\n\n"
  \o (IF hasPreviousContext
      THEN "\nIMPORTANT: The user is asking a follow-up question. Consider the context from your previous response when providing this analysis.\nPrevious response: \""
           \o previousContext \o "\"\n"
      ELSE "")
  \o "\n\n"
  \o (IF requiresChart
      THEN "\nRESPOND IN JSON FORMAT:\n{\n  \"analysis\": \"Brief analysis text...\",\n  \"chart\": {\n    \"type\": \"bar|line|pie\",\n    \"title\": \"Chart title\",\n    \"data\": [{\"name\": \"Category\", \"value\": 123}]\n  }\n}\n- Use \"bar\" for categories, \"line\" for trends, \"pie\" for proportions\n- Max 8 data points, use exact values from data\n"
      ELSE "\nRESPOND IN PLAIN TEXT - be concise and specific.\n")
  \o "\n\nData: " \o dataSummary

userPromptTS(originalQuestion, requiresChart) ==
  "Q: " \o originalQuestion \o "\n\nAnalyze the data. "
  \o (IF requiresChart THEN "Include chart data." ELSE "Be concise.")

systemPromptJS(dataSummary) ==
  "You are an expert data analyst specializing in FingerprintJS visitor identification data. \n      \nYour task is to analyze visitor identification events and provide insightful, accurate answers to user questions.\n\nAvailable data includes:\n- Visitor identification events with timestamps\n- Geographic information (country, city)\n- Browser and operating system details\n- Security indicators (VPN detection, bot detection)\n- Confidence scores for identification accuracy\n- IP addresses and user agents\n\nGuidelines:\n1. Provide specific, data-driven insights\n2. Use exact numbers and percentages when available\n3. Identify patterns, anomalies, and security concerns\n4. Suggest actionable recommendations when relevant\n5. Be concise but comprehensive\n6. If the question cannot be answered with the available data, clearly state this\n\nData Summary:\n"
  \o dataSummary
  \o "\n\nRespond in a helpful, professional tone. Focus on providing actionable insights for security, user experience, and business intelligence."

\* userPrompt.replace('Question: ', '') wrapped into the single message sent
simplePromptJS(question) ==
  "You are a data analyst. Please answer this question: " \o question
  \o "\n\nPlease analyze the FingerprintJS data and provide a comprehensive answer. Include specific insights, patterns, and recommendations based on the data."

(***************************************************************************)
(* Service: analyzeData                                                    *)
(***************************************************************************)
\* analyzeData's promise resolves with `result`
analysisReturns(m, result) ==
  [m EXCEPT !.analysis = result, !.pc = "analyzed", !.call = NoCall]

\* the result of the `!this.isAIAvailable` branch
unavailableResult(csvData, originalQuestion) ==
  Obj(<<<<"success", Bool(FALSE)>>,
        <<"error", Str("AI service not available")>>,
        <<"answer", Str(generateFallbackAnswer(csvData, originalQuestion))>>,
        <<"chart", generateFallbackChart(csvData, originalQuestion)>>,
        <<"provider", Str("fallback")>>>>)

\* a catch branch that reports the rule-based text under another key
catchResultNoAnswer(csvData, question, error) ==
  Obj(<<<<"success", Bool(FALSE)>>,
        <<"error", Str(error)>>,
        <<"fallbackAnswer", Str(generateFallbackAnswer(csvData, question))>>,
        <<"chart", generateFallbackChart(csvData, question)>>,
        <<"provider", Str("fallback")>>>>)

\* the result of the catch branch
catchResult(csvData, question, error) ==
  IF svc = "ts"
  THEN Obj(<<<<"success", Bool(FALSE)>>,
             <<"error", Str(error)>>,
             <<"answer", orElse(Str(generateFallbackAnswer(csvData, question)),
                                Str("Analysis completed with fallback data."))>>,
             <<"chart", generateFallbackChart(csvData, question)>>,
             <<"provider", Str("fallback")>>>>)
  ELSE Obj(<<<<"success", Bool(FALSE)>>,
             <<"error", Str(error)>>,
             <<"fallbackAnswer", Str(generateFallbackAnswerJS(csvData, question))>>,
             <<"provider", Str("fallback")>>>>)

\* a catch that calls the provider once more
analysisRetried(m, error) ==
  launch(m, m.call.systemPrompt, m.call.userPrompt, "analyze")

\* the catch of analyzeData
analysisFailed(m, error) ==
  analysisReturns(m, catchResult(eventsOf(m.req.csvData), m.locals.originalQuestion, error))

\* the success return of the TypeScript service
parsedResult(m, parsedResponse) ==
  analysisReturns(m, Obj(<<<<"success", Bool(TRUE)>>,
                           <<"answer", parsedResponse.analysis>>,
                           <<"chart", parsedResponse.chart>>,
                           <<"dataSummary", Str(m.locals.dataSummary)>>,
                           <<"provider", Str(m.aiProvider)>>>>))

\* analyzeData from `let response` on
withResponse(m, response) ==
  IF svc = "ts" THEN parsedResult(m, parseAIResponse(response.s, m.locals.requiresChart))
  ELSE IF response.t # "string"
  THEN analysisFailed(m, "Cannot read properties of undefined (reading 'length')")
  ELSE analysisReturns(m, Obj(<<<<"success", Bool(TRUE)>>,
                                <<"answer", response>>,
                                <<"dataSummary", Str(m.locals.dataSummary)>>,
                                <<"provider", Str(m.aiProvider)>>>>))

\* the provider call of analyzeData has returned `response`
analysisCompleted(m, response) ==
  withResponse([m EXCEPT !.locals.response = response], response)

\* the try block of the TypeScript analyzeData from the digest on
summarized(m, x, dataSummary, requiresChart) ==
  IF dataSummary.thrown THEN analysisFailed(m, dataSummary.text)
  ELSE launch([m EXCEPT !.locals.dataSummary = dataSummary.text,
                        !.locals.requiresChart = requiresChart],
              systemPromptTS(x.hasPreviousContext, x.previousContext, requiresChart,
                             dataSummary.text),
              userPromptTS(x.originalQuestion, requiresChart), "analyze")

\* an availability check that also answers small collections by rule
inContextSmallFallsBack(m, csvData, x) ==
  IF ~m.isAIAvailable \/ Len(csvData) <= SummaryThreshold
  THEN analysisReturns(m, unavailableResult(csvData, x.originalQuestion))
  ELSE summarized(m, x,
                  IF m.locals.isFastMode THEN prepareFastDataSummary(csvData)
                  ELSE prepareDataSummary(csvData),
                  questionRequiresChart(x.originalQuestion))

inContext(m, csvData, x) ==
  IF ~m.isAIAvailable
  THEN analysisReturns(m, unavailableResult(csvData, x.originalQuestion))
  ELSE summarized(m, x,
                  IF m.locals.isFastMode THEN prepareFastDataSummary(csvData)
                  ELSE prepareDataSummary(csvData),
                  questionRequiresChart(x.originalQuestion))

withContext(m, csvData, x) ==
  inContext([m EXCEPT !.locals.originalQuestion = x.originalQuestion,
                      !.locals.previousContext = x.previousContext,
                      !.locals.isFastMode = isFastModeQuestion(x.originalQuestion)],
            csvData, x)

analyzeDataTS(m, csvData, question) ==
  withContext(initializeAI(m), csvData, extractContext(question))

summarizedJS(m, question, dataSummary) ==
  IF dataSummary.thrown THEN analysisFailed(m, dataSummary.text)
  ELSE launch([m EXCEPT !.locals.dataSummary = dataSummary.text],
              systemPromptJS(dataSummary.text), simplePromptJS(question), "analyze")

\* lines 86-92 set isAIAvailable whatever initializeAI found
analyzeDataJS(m, csvData, question) ==
  summarizedJS([initializeAI(m) EXCEPT !.isAIAvailable = TRUE,
                                       !.locals.originalQuestion = question],
               question, prepareDataSummaryJS(csvData, now))

analyzeData(m, csvData, question) ==
  IF svc = "ts" THEN analyzeDataTS(m, csvData, question)
  ELSE analyzeDataJS(m, csvData, question)

(***************************************************************************)
(* Service: generateFollowUpQuestions (TypeScript service)                 *)
(***************************************************************************)
\* generateFallbackFollowUpQuestions as called: aiResponse.toLowerCase() is a
\* TypeError unless aiResponse is a string
fallbackFollowUps(aiResponse, isDeeper) ==
  IF aiResponse.t = "string"
  THEN [settled |-> TRUE, thrown |-> FALSE, error |-> "",
        questions |-> generateFallbackFollowUpQuestions(aiResponse.s, isDeeper)]
  ELSE [settled |-> TRUE, thrown |-> TRUE,
        error |-> "aiResponse.toLowerCase is not a function", questions |-> <<>>]

\* generateFollowUpQuestions's promise settles
followUpReturns(m, outcome) ==
  [m EXCEPT !.followUp = outcome, !.pc = "followed", !.call = NoCall]

\* the fallback returns of generateFollowUpQuestions: provider unavailable,
\* fewer than two lines, the catch
followUpFailed(m) ==
  followUpReturns(m, fallbackFollowUps(m.locals.aiResponse, m.locals.isDeeper))

\* a line parser that returns whatever lines it found
chosenAny(m, questions) ==
  followUpReturns(m, [settled |-> TRUE, thrown |-> FALSE, error |-> "",
                      questions |-> questions])

chosen(m, questions) ==
  IF Len(questions) >= 2
  THEN followUpReturns(m, [settled |-> TRUE, thrown |-> FALSE, error |-> "",
                           questions |-> questions])
  ELSE followUpFailed(m)

\* the provider answered the follow-up prompt with `text`
followUpCompleted(m, text) == chosen(m, followUpLines(text))

asked(m, aiResponse, isDeeper) ==
  IF ~m.isAIAvailable THEN followUpFailed(m)
  ELSE launch(m, followUpSystemPrompt(isDeeper), followUpUserPrompt(aiResponse), "followup")

generateFollowUpQuestions(m, aiResponse, isDeeper) ==
  asked([m EXCEPT !.locals.aiResponse = aiResponse, !.locals.isDeeper = isDeeper],
        aiResponse, isDeeper)

(***************************************************************************)
(* Server: endpoint handlers (server.js)                                   *)
(***************************************************************************)
respond(m, status, body) ==
  [m EXCEPT !.pc = "responded", !.res = [status |-> status, body |-> body],
            !.call = NoCall]

Apology == "I apologize, but I encountered an error while analyzing your data. Please try rephrasing your question or check your data format."

badRequest(m, error) ==
  respond(m, 400, jsonBody(<<<<"success", Bool(FALSE)>>, <<"error", Str(error)>>>>))

\* a fresh request: nothing of the previous one is kept but the service fields
fresh(endpoint, question, csvData, aiResponse, isDeeper) ==
  [Cur EXCEPT !.pc = "handling",
              !.req = [endpoint |-> endpoint, question |-> question, csvData |-> csvData,
                       aiResponse |-> aiResponse, isDeeper |-> isDeeper]]

\* the checks at the head of both analysis endpoints, then analyzeData
analyzeHandler(m) ==
  IF ~truthy(m.req.question) THEN badRequest(m, "Question is required")
  ELSE IF ~truthy(m.req.csvData) \/ m.req.csvData.t # "array" \/ Len(m.req.csvData.kids) = 0
  THEN badRequest(m, "CSV data is required and must be a non-empty array")
  ELSE analyzeData(m, eventsOf(m.req.csvData), m.req.question.s)

\* the envelope of both analysis endpoints; followUpQuestions is Undefined
\* on /api/ai/analyze
analysisEnvelope(m, followUpQuestions) ==
  respond(m, 200,
          jsonBody(<<<<"success", Bool(TRUE)>>,
                     <<"answer", getProp(m.analysis, "answer")>>,
                     <<"chart", getProp(m.analysis, "chart")>>,
                     <<"isFallback", Bool(~truthy(getProp(m.analysis, "success")))>>,
                     <<"provider", getProp(m.analysis, "provider")>>,
                     <<"followUpQuestions", followUpQuestions>>,
                     timestamp>>))

\* aiService.js has neither follow-up method: on the combined endpoint the
\* call, the inner catch and the outer catch each raise a TypeError, and the
\* handler's promise rejects with nothing sent
rejected(m) == [m EXCEPT !.pc = "unhandled", !.call = NoCall]

\* the endpoint handler resumes with what analyzeData returned
afterAnalysis(m) ==
  IF m.req.endpoint = "/api/ai/analyze" THEN analysisEnvelope(m, Undefined)
  ELSE IF svc = "js" THEN rejected(m)
  ELSE generateFollowUpQuestions(m, getProp(m.analysis, "answer"), TRUE)

\* the inner and the outer catch of the combined endpoint
combinedCaught(m, inner) ==
  IF ~inner.thrown THEN analysisEnvelope(m, strings(inner.questions))
  ELSE respond(m, 500,
               jsonBody(<<<<"success", Bool(FALSE)>>,
                          <<"error", Str(inner.error)>>,
                          <<"fallbackAnswer", Str(Apology)>>,
                          <<"provider", Str("fallback")>>,
                          <<"followUpQuestions",
                            strings(generateFallbackFollowUpQuestions(Apology, TRUE))>>>>))

\* /api/ai/analyze-with-followup once generateFollowUpQuestions has settled
combinedDone(m, outcome) ==
  IF ~outcome.thrown THEN analysisEnvelope(m, strings(outcome.questions))
  ELSE combinedCaught(m, fallbackFollowUps(getProp(m.analysis, "answer"), TRUE))

followUpError(m, error) ==
  respond(m, 500,
          jsonBody(<<<<"success", Bool(FALSE)>>,
                     <<"error", Str(error)>>,
                     <<"questions", strings(<<"Show data patterns", "Analyze insights">>)>>>>))

\* /api/ai/follow-up-questions once generateFollowUpQuestions has settled
followUpEndpointDone(m, outcome) ==
  IF ~outcome.thrown
  THEN respond(m, 200, jsonBody(<<<<"success", Bool(TRUE)>>,
                                  <<"questions", strings(outcome.questions)>>,
                                  timestamp>>))
  ELSE followUpError(m, outcome.error)

afterFollowUp(m) ==
  IF m.req.endpoint = "/api/ai/analyze-with-followup" THEN combinedDone(m, m.followUp)
  ELSE followUpEndpointDone(m, m.followUp)

followUpHandler(m) ==
  IF ~truthy(m.req.aiResponse) THEN badRequest(m, "AI response is required")
  ELSE IF ~truthy(m.req.csvData) \/ m.req.csvData.t # "array"
  THEN badRequest(m, "CSV data is required and must be an array")
  ELSE IF svc = "js"
  THEN followUpError(m, "aiService.generateFollowUpQuestions is not a function")
  ELSE generateFollowUpQuestions(m, m.req.aiResponse, m.req.isDeeper)

statusHandler(m) ==
  respond(m, 200,
          jsonBody(<<<<"success", Bool(TRUE)>>,
                     <<"provider", Str(statusOf(m).provider)>>,
                     <<"isAvailable", Bool(statusOf(m).isAvailable)>>,
                     <<"model", Str(statusOf(m).model)>>,
                     timestamp>>))

(***************************************************************************)
(* Inputs                                                                  *)
(***************************************************************************)
MaxEvents == 3
BigExtra == 1
MaxModelPoints == 11

EventAt(i) ==
  [visitorId   |-> IF i % 2 = 1 THEN "visitor-odd-0001" ELSE "visitor-even-0002",
   ipAddress   |-> "10.0.0." \o numToString(i % 3),
   country     |-> <<"Norway", "Chile", "">>[(i % 3) + 1],
   city        |-> <<"Oslo", "">>[(i % 2) + 1],
   browser     |-> <<"Chrome", "Unknown", "Firefox", "">>[(i % 4) + 1],
   os          |-> <<"Linux", "">>[(i % 2) + 1],
   confidence  |-> (i * 37) % 101,
   vpnDetected |-> i % 2 = 1,
   botDetected |-> i % 3 = 0,
   date        |-> (i * 7) % 1000,
   dateValid   |-> TRUE]

EventsUpTo(n) == [i \in 1..n |-> EventAt(i)]

\* the same events, the last one carrying a date that does not parse
WithBadDate(events) == [events EXCEPT ![Len(events)].dateValid = FALSE]

EventCollections ==
  {EventsUpTo(n) : n \in 1..MaxEvents}
  \cup {WithBadDate(EventsUpTo(1)),
        EventsUpTo(SummaryThreshold + BigExtra),
        WithBadDate(EventsUpTo(SummaryThreshold + BigExtra))}

\* the csvData member of a request body
CsvBodies == {Undefined, Str("visitorId,country"), Arr(<<>>)}
             \cup {Arr(c) : c \in EventCollections}

Questions ==
  {"What are the security threats?",
   "Show geographic distribution",
   "Analyze visitor patterns",
   "How many events in total?",
   "Previous AI response: \"Two bots were seen\". User question: Show me a chart"}

QuestionBodies == {Undefined, Str("")} \cup {Str(q) : q \in Questions}

RECURSIVE modelPoints(_)
modelPoints(n) ==
  IF n = 0 THEN ""
  ELSE (IF n = 1 THEN "" ELSE modelPoints(n - 1) \o ", ")
       \o "{\"name\": \"c" \o numToString(n) \o "\", \"value\": " \o numToString(n) \o "}"

\* the JSON envelope the chart prompt asks the model for, with n data points
envelope(analysisJson, n) ==
  "{\"analysis\": " \o analysisJson
  \o ", \"chart\": {\"type\": \"bar\", \"title\": \"By country\", \"data\": ["
  \o modelPoints(n) \o "]}}"

\* texts a backend may answer a completion with
Responses ==
  {"Most traffic is clean.",
   "",
   " \n ",
   "  The visitors come from two countries.\n",
   "Which countries send the bots?\nHow many visitors use a VPN?",
   "1. Which countries send the bots?\n2. How many visitors use a VPN?",
   "{\"analysis\": \"Only text\"}",
   "{analysis: none, chart: none}",
   "Here you go: " \o envelope("\"Norway leads.\"", 1) \o " Hope it helps.",
   envelope("\"Nothing to plot.\"", 0),
   envelope("\"Many countries.\"", MaxModelPoints),
   envelope("42", 1)}

\* the texts tried as answers to the follow-up prompt: no line, one line,
\* two lines, two numbered lines
FollowUpReplies ==
  {"",
   "Most traffic is clean.",
   "Which countries send the bots?\nHow many visitors use a VPN?",
   "1. Which countries send the bots?\n2. How many visitors use a VPN?"}

Replies(purpose) == IF purpose = "followup" THEN FollowUpReplies ELSE Responses

\* the parsed bodies of an Ollama /api/chat reply
OllamaBodies(purpose) ==
  {Obj(<<<<"message", Obj(<<<<"role", Str("assistant")>>, <<"content", Str(r)>>>>)>>>>)
     : r \in Replies(purpose)}
  \cup {Obj(<<<<"error", Str("model not found")>>>>),
        Obj(<<<<"message", Obj(<<<<"role", Str("assistant")>>>>)>>>>)}

\* the aiResponse and csvData members of a follow-up request body
AnswerBodies == {Undefined} \cup {Str(r) : r \in Responses}

FollowUpCsvBodies == {Undefined, Arr(<<>>), Arr(EventsUpTo(1))}

Envs ==
  [AI_PROVIDER : {"", "fallback", "ollama", "openai"},
   OLLAMA_HOST : {"", "http://localhost:11434"},
   OPENAI_API_KEY : {"", "sk-test"},
   OLLAMA_MODEL : {""},
   OPENAI_MODEL : {""}]
  \cup {[AI_PROVIDER |-> "ollama", OLLAMA_HOST |-> "http://localhost:11434",
          OPENAI_API_KEY |-> "", OLLAMA_MODEL |-> "mistral", OPENAI_MODEL |-> ""]}

(***************************************************************************)
(* Requests                                                                *)
(***************************************************************************)
PostAnalyze ==
  /\ pc = "idle"
  /\ \E question \in QuestionBodies, csvData \in CsvBodies :
       Assign(analyzeHandler(fresh("/api/ai/analyze", question, csvData, Undefined, FALSE)))
  /\ UNCHANGED <<second, solo, chat, page, fn, env, now, svc>>

PostAnalyzeWithFollowup ==
  /\ pc = "idle"
  /\ \E question \in QuestionBodies, csvData \in CsvBodies :
       Assign(analyzeHandler(fresh("/api/ai/analyze-with-followup", question, csvData,
                                   Undefined, FALSE)))
  /\ UNCHANGED <<second, solo, chat, page, fn, env, now, svc>>

PostFollowUpQuestions ==
  /\ pc = "idle"
  /\ \E aiResponse \in AnswerBodies, csvData \in FollowUpCsvBodies, isDeeper \in BOOLEAN :
       Assign(followUpHandler(fresh("/api/ai/follow-up-questions", Undefined, csvData,
                                    aiResponse, isDeeper)))
  /\ UNCHANGED <<second, solo, chat, page, fn, env, now, svc>>

GetStatus ==
  /\ pc = "idle"
  /\ Assign(statusHandler(initializeAI(fresh("/api/ai/status", Undefined, Undefined,
                                             Undefined, FALSE))))
  /\ UNCHANGED <<second, solo, chat, page, fn, env, now, svc>>

(***************************************************************************)
(* Resumptions: each await of the handlers continues in a later turn       *)
(***************************************************************************)
\* analyzeData resumes after `await this.analyzeWith...(...)`
AnalyzeResumes ==
  /\ pc = "analyze"
  /\ call.stage = "settled"
  /\ Assign(IF call.ok THEN analysisCompleted(Cur, call.value)
            ELSE analysisFailed(Cur, call.value.s))
  /\ UNCHANGED <<second, solo, chat, page, fn, env, now, svc>>

\* generateFollowUpQuestions resumes after its provider call
FollowUpResumes ==
  /\ pc = "followup"
  /\ call.stage = "settled"
  /\ Assign(IF call.ok THEN followUpCompleted(Cur, call.value.s) ELSE followUpFailed(Cur))
  /\ UNCHANGED <<second, solo, chat, page, fn, env, now, svc>>

\* the endpoint handler resumes after `await aiService.analyzeData(...)`
HandlerAfterAnalysis ==
  /\ pc = "analyzed"
  /\ Assign(afterAnalysis(Cur))
  /\ UNCHANGED <<second, solo, chat, page, fn, env, now, svc>>

\* the endpoint handler resumes after `await aiService.generateFollowUpQuestions(...)`
HandlerAfterFollowUp ==
  /\ pc = "followed"
  /\ Assign(afterFollowUp(Cur))
  /\ UNCHANGED <<second, solo, chat, page, fn, env, now, svc>>

\* the handler's promise has settled (the response was written, or the
\* rejection went unhandled) and its frame is dropped; the service stays
HandlerSettles ==
  /\ pc \in {"responded", "unhandled"}
  /\ pc' = "idle"
  /\ req' = NoReq
  /\ locals' = NoLocals
  /\ call' = NoCall
  /\ calls' = NoCalls
  /\ analysis' = Undefined
  /\ followUp' = NoFollowUp
  /\ res' = NoRes
  /\ UNCHANGED <<second, solo, chat, page, fn, env, now, svc, initialized, inits, aiProvider, ollamaModel, openaiModel,
                 isAIAvailable, chatModel>>

(***************************************************************************)
(* The backend and the timer of a completion call                          *)
(***************************************************************************)
Settles(ok, value) ==
  /\ call' = [call EXCEPT !.stage = "settled", !.timer = FALSE, !.ok = ok, !.value = value]
  /\ UNCHANGED <<second, solo, chat, page, fn, env, now, svc, initialized, inits, aiProvider, ollamaModel, openaiModel,
                 isAIAvailable, chatModel, pc, req, locals, calls, analysis, followUp, res>>

\* fetch() resolves with the response headers; clearTimeout(timeoutId) runs
\* and the body is awaited: json() of a 2xx reply, text() of any other
FetchResolves ==
  /\ call.stage = "fetch"
  /\ \E ok \in BOOLEAN :
       call' = [call EXCEPT !.stage = IF ok THEN "json" ELSE "text", !.timer = FALSE]
  /\ UNCHANGED <<second, solo, chat, page, fn, env, now, svc, initialized, inits, aiProvider, ollamaModel, openaiModel,
                 isAIAvailable, chatModel, pc, req, locals, calls, analysis, followUp, res>>

\* fetch() rejects: connection refused, reset, DNS failure
FetchRejects ==
  /\ call.stage = "fetch"
  /\ Settles(FALSE, Str("Ollama analysis failed: request to " \o env.OLLAMA_HOST
                        \o "/api/chat failed"))

\* the 30 s timer fires: controller.abort() rejects the pending fetch
TimerFires ==
  /\ call.timer
  /\ call.stage = "fetch"
  /\ Settles(FALSE, Str("Ollama analysis failed: The user aborted a request."))

\* data.message?.content || data.content || '...', trimmed (TypeScript);
\* data.message.content (JavaScript), a TypeError without data.message
ollamaContent(data) ==
  IF svc = "ts"
  THEN [ok |-> TRUE,
        value |-> Str(trim(orElse(orElse(getProp(getProp(data, "message"), "content"),
                                         getProp(data, "content")),
                                  Str("Analysis completed successfully.")).s))]
  ELSE IF getProp(data, "message").t = "undefined"
  THEN [ok |-> FALSE,
        value |-> Str("Ollama analysis failed: Cannot read properties of undefined (reading 'content')")]
  ELSE [ok |-> TRUE, value |-> getProp(getProp(data, "message"), "content")]

\* response.json() resolves with the parsed body
JsonArrives ==
  /\ call.stage = "json"
  /\ \E data \in OllamaBodies(call.purpose) : Settles(ollamaContent(data).ok, ollamaContent(data).value)

\* response.json() rejects: the body is cut short or is not JSON
JsonFails ==
  /\ call.stage = "json"
  /\ Settles(FALSE, Str("Ollama analysis failed: invalid json response body"))

\* the body of a non-2xx reply has been read: the status is thrown
TextArrives ==
  /\ call.stage = "text"
  /\ Settles(FALSE, Str("Ollama analysis failed: Ollama API error: 500 Internal Server Error"))

\* chatModel.invoke resolves with response.content
InvokeResolves ==
  /\ call.stage = "invoke"
  /\ \E r \in Replies(call.purpose) : Settles(TRUE, Str(r))

\* chatModel.invoke rejects: API error, network failure
InvokeRejects ==
  /\ call.stage = "invoke"
  /\ Settles(FALSE, Str("OpenAI analysis failed: Connection error."))

\* the client library gives up after its timeout and retry budget
InvokeTimesOut ==
  /\ call.stage = "invoke"
  /\ Settles(FALSE, Str("OpenAI analysis failed: Request timed out."))

(***************************************************************************)
(* Specification                                                           *)
(***************************************************************************)
Init ==
  /\ env \in Envs
  /\ now = 500
  /\ svc \in {"ts", "js"}
  /\ initialized = FALSE
  /\ inits = 0
  /\ aiProvider = ""
  /\ ollamaModel = ""
  /\ openaiModel = ""
  /\ isAIAvailable = FALSE
  /\ chatModel = FALSE
  /\ pc = "idle"
  /\ req = NoReq
  /\ locals = NoLocals
  /\ call = NoCall
  /\ calls = NoCalls
  /\ analysis = Undefined
  /\ followUp = NoFollowUp
  /\ res = NoRes
  /\ fn = NoFn
  /\ second = NoFrame
  /\ solo = NoSolo
  /\ chat = NoChat
  /\ page = NoPage

Next ==
  \/ PostAnalyze
  \/ PostAnalyzeWithFollowup
  \/ PostFollowUpQuestions
  \/ GetStatus
  \/ AnalyzeResumes
  \/ FollowUpResumes
  \/ HandlerAfterAnalysis
  \/ HandlerAfterFollowUp
  \/ HandlerSettles
  \/ FetchResolves
  \/ FetchRejects
  \/ TimerFires
  \/ JsonArrives
  \/ JsonFails
  \/ TextArrives
  \/ InvokeResolves
  \/ InvokeRejects
  \/ InvokeTimesOut

Spec == Init /\ [][Next]_vars

(***************************************************************************)
(* The functions of the service applied directly                           *)
(***************************************************************************)
MaxCountries == 9
MaxTicks == 1
TickMs == 10

InCountry(i, country) == [EventAt(i) EXCEPT !.country = country]

\* one event from each of MaxCountries countries
ManyCountries == [i \in 1..MaxCountries |-> InCountry(i, "Land " \o numToString(i))]

\* Austria 3, Brazil 2, Cuba 1, first seen in the order Brazil, Austria, Cuba
Skewed ==
  [i \in 1..6 |->
     InCountry(i, <<"Brazil", "Austria", "Austria", "Cuba", "Austria", "Brazil">>[i])]

\* no event names a country
Nameless == <<InCountry(1, ""), InCountry(2, "Unknown")>>

\* which of seven labels event i carries: each label once in events 1..7,
\* then runs that bring the counts to 20, 30, 8, 20, 8, 14, 2
labelOf(i) ==
  IF i <= 7 THEN i
  ELSE IF i <= 36 THEN 2
  ELSE IF i <= 55 THEN 1
  ELSE IF i <= 74 THEN 4
  ELSE IF i <= 87 THEN 6
  ELSE IF i <= 94 THEN 5
  ELSE IF i <= 101 THEN 3
  ELSE 7

\* more than SummaryThreshold events over seven countries, browsers and
\* visitors, with equal counts among the first five and across the fifth place
Ranked ==
  [i \in 1..(SummaryThreshold + 2) |->
     [EventAt(i) EXCEPT
        !.country = <<"Peru", "Chad", "Oman", "Fiji", "Mali", "Togo", "Laos">>[labelOf(i)],
        !.browser = <<"Edge", "Opera", "Brave", "Safari", "Vivaldi", "Tor", "Lynx">>[labelOf(i)],
        !.visitorId = <<"p1-visitor", "c2-visitor", "o3-visitor", "f4-visitor",
                        "m5-visitor", "t6-visitor", "l7-visitor">>[labelOf(i)]]]

DirectCollections ==
  {Absent, Given(<<>>)}
  \cup {Given(c) : c \in EventCollections
                         \cup {EventsUpTo(SummaryThreshold), ManyCountries, Skewed,
                               Nameless, Ranked}}

DirectQuestions ==
  Questions
  \cup {"Which visitors use a VPN?",
        "VPN usage by country",
        "Browser usage per country",
        "Which device do bots prefer?",
        "What are the threats?",
        "What is most common?",
        "Show me a chart",
        "Tell me something",
        "Previous AI response: \"\". User question: What are the security threats?",
        "Previous AI response: \"The \"visitor\" count is 3\". User question: What are the security threats?"}

\* answer texts handed to the follow-up generators
DirectAnswers ==
  {"Two VPN users and one bot were seen.",
   "One bot came from one country.",
   "Traffic comes from one country.",
   "Most visitors returned twice.",
   "Chrome is the top browser.",
   "Nothing stands out."}

returned(value) == [thrown |-> FALSE, value |-> value]

\* a summary's [thrown, text] as an outcome
summaryOutcome(r) == [thrown |-> r.thrown, value |-> Str(r.text)]

\* `!csvData || csvData.length === 0`: undefined takes the branch of the empty array
eventsOrNone(c) == IF c.present THEN c.events ELSE <<>>

Applied(op, arg, out) ==
  /\ fn' = [fn EXCEPT !.op = op, !.arg = arg, !.out = out]
  /\ UNCHANGED <<second, solo, chat, page, env, now, svc, initialized, inits, aiProvider, ollamaModel, openaiModel,
                 isAIAvailable, chatModel, pc, req, locals, call, calls, analysis,
                 followUp, res>>

Summarize ==
  Applied("prepareDataSummary", NoArg,
          summaryOutcome(prepareDataSummary(eventsOrNone(fn.csvData))))

SummarizeFast ==
  Applied("prepareFastDataSummary", NoArg,
          summaryOutcome(prepareFastDataSummary(eventsOrNone(fn.csvData))))

\* prepareDataSummary of aiService.js, which reads Date.now()
SummarizeJS ==
  Applied("prepareDataSummaryJS", NoArg,
          summaryOutcome(prepareDataSummaryJS(eventsOrNone(fn.csvData), now)))

FallbackChart ==
  /\ fn.csvData.present
  /\ Applied("generateFallbackChart", NoArg,
             returned(generateFallbackChart(fn.csvData.events, fn.question)))

\* the result analyzeData builds when the provider is not available
Fallback ==
  /\ fn.csvData.present
  /\ Len(fn.csvData.events) > 0
  /\ Applied("unavailableResult", NoArg,
             returned(unavailableResult(fn.csvData.events, fn.question)))

\* what analyzeData derives from the question before it calls the provider,
\* and the result it returns when the provider is not available
analysisPlan(csvData, question) ==
  LET x == extractContext(question)
      requiresChart == questionRequiresChart(x.originalQuestion)
  IN  Obj(<<<<"originalQuestion", Str(x.originalQuestion)>>,
            <<"previousContext", Str(x.previousContext)>>,
            <<"isFastMode", Bool(isFastModeQuestion(x.originalQuestion))>>,
            <<"requiresChart", Bool(requiresChart)>>,
            <<"userPrompt", Str(userPromptTS(x.originalQuestion, requiresChart))>>,
            <<"unavailable", unavailableResult(csvData, x.originalQuestion)>>>>)

AnalyzeHead ==
  /\ fn.csvData.present
  /\ Len(fn.csvData.events) > 0
  /\ Applied("analysisPlan", NoArg,
             returned(analysisPlan(fn.csvData.events, fn.question)))

\* how the completion request of the App.tsx service ends: a reply with a
\* response text, a reply without one, a failure
AppOutcomes ==
  {[ok |-> TRUE, value |-> Str("Two bots were seen.")],
   [ok |-> TRUE, value |-> Undefined],
   [ok |-> FALSE, value |-> Undefined]}

AnalyzeApp ==
  /\ datesParse(eventsOrNone(fn.csvData))
  /\ \E outcome \in AppOutcomes :
       Applied("analyzeDataApp",
               [text |-> "", isDeeper |-> outcome.ok, reply |-> outcome.value.s],
               returned(analyzeDataApp(fn.csvData, outcome)))

\* generateFollowUpQuestions from the provider's reply on
ParseFollowUps ==
  \E reply \in FollowUpReplies, aiResponse \in DirectAnswers, isDeeper \in BOOLEAN :
    Applied("followUpFromResponse",
            [text |-> aiResponse, isDeeper |-> isDeeper, reply |-> reply],
            returned(strings(followUpFromResponse(reply, aiResponse, isDeeper))))

FallbackFollowUps ==
  \E aiResponse \in DirectAnswers, isDeeper \in BOOLEAN :
    Applied("generateFallbackFollowUpQuestions",
            [text |-> aiResponse, isDeeper |-> isDeeper, reply |-> ""],
            returned(strings(generateFallbackFollowUpQuestions(aiResponse, isDeeper))))

FollowUpsApp ==
  \E response \in DirectAnswers :
    Applied("generateFollowUpQuestionsApp",
            [text |-> response, isDeeper |-> FALSE, reply |-> ""],
            returned(strings(generateFollowUpQuestionsApp(response))))

\* time passes between two applications
Tick ==
  /\ now < MaxTicks * TickMs
  /\ now' = now + TickMs
  /\ UNCHANGED <<second, solo, chat, page, fn, env, svc, initialized, inits, aiProvider, ollamaModel, openaiModel,
                 isAIAvailable, chatModel, pc, req, locals, call, calls, analysis,
                 followUp, res>>

DirectInit ==
  /\ env = [AI_PROVIDER |-> "", OLLAMA_HOST |-> "", OPENAI_API_KEY |-> "",
            OLLAMA_MODEL |-> "", OPENAI_MODEL |-> ""]
  /\ now = 0
  /\ svc = "ts"
  /\ initialized = FALSE
  /\ inits = 0
  /\ aiProvider = ""
  /\ ollamaModel = ""
  /\ openaiModel = ""
  /\ isAIAvailable = FALSE
  /\ chatModel = FALSE
  /\ pc = "idle"
  /\ req = NoReq
  /\ locals = NoLocals
  /\ call = NoCall
  /\ calls = NoCalls
  /\ analysis = Undefined
  /\ followUp = NoFollowUp
  /\ res = NoRes
  /\ second = NoFrame
  /\ solo = NoSolo
  /\ chat = NoChat
  /\ page = NoPage
  /\ \E csvData \in DirectCollections, question \in DirectQuestions :
       fn = [NoFn EXCEPT !.csvData = csvData, !.question = question]

DirectNext ==
  \/ Summarize
  \/ SummarizeFast
  \/ SummarizeJS
  \/ FallbackChart
  \/ Fallback
  \/ AnalyzeHead
  \/ AnalyzeApp
  \/ ParseFollowUps
  \/ FallbackFollowUps
  \/ FollowUpsApp
  \/ Tick

DirectSpec == DirectInit /\ [][DirectNext]_vars

(***************************************************************************)
(* Two requests in flight at once: every await of a handler yields to the  *)
(* event loop, where the other handler may run up to its next await        *)
(***************************************************************************)
Handlers == {1, 2}

\* the handler's part of the record of service and handler
frameOf(m) ==
  [pc |-> m.pc, req |-> m.req, locals |-> m.locals, call |-> m.call, calls |-> m.calls,
   analysis |-> m.analysis, followUp |-> m.followUp, res |-> m.res]

onFrame(m, f) ==
  [m EXCEPT !.pc = f.pc, !.req = f.req, !.locals = f.locals, !.call = f.call,
            !.calls = f.calls, !.analysis = f.analysis, !.followUp = f.followUp,
            !.res = f.res]

\* the one service instance with the frame of handler h
CurOf(h) == IF h = 1 THEN Cur ELSE onFrame(Cur, second)

AssignTo(h, m) ==
  IF h = 1 THEN Assign(m) /\ second' = second
  ELSE Assign(onFrame(m, frameOf(Cur))) /\ second' = frameOf(m)

\* a handler that has not started, with nothing heard from a backend
NoRun == [start |-> onFrame(Cur, NoFrame), heard |-> <<>>]

ConcurrentEnvs ==
  {e \in Envs : /\ e.AI_PROVIDER # "fallback"
                /\ e.OLLAMA_HOST # ""
                /\ e.OPENAI_API_KEY # ""
                /\ e.OLLAMA_MODEL = ""}

ConcurrentRequests ==
  {[NoReq EXCEPT !.endpoint = "/api/ai/status"],
   [NoReq EXCEPT !.endpoint = "/api/ai/analyze",
                 !.question = Str("What are the security threats?"),
                 !.csvData = Arr(EventsUpTo(MaxEvents - 1))],
   [NoReq EXCEPT !.endpoint = "/api/ai/analyze-with-followup",
                 !.question = Str("Show geographic distribution"),
                 !.csvData = Arr(EventsUpTo(MaxEvents - 1))],
   [NoReq EXCEPT !.endpoint = "/api/ai/follow-up-questions",
                 !.aiResponse = Str("Most traffic is clean."),
                 !.csvData = Arr(EventsUpTo(1))]}

\* what a completion call's promise may settle with
ConcurrentOutcomes(purpose) ==
  {[ok |-> TRUE,
    value |-> Str(IF purpose = "followup"
                  THEN "Which countries send the bots?\nHow many visitors use a VPN?"
                  ELSE "Most traffic is clean.")],
   [ok |-> FALSE, value |-> Str("Ollama analysis failed: The user aborted a request.")]}

\* the routes of server.js, each handler run up to its first await
handle(m) ==
  CASE m.req.endpoint = "/api/ai/status" -> statusHandler(initializeAI(m))
    [] m.req.endpoint = "/api/ai/follow-up-questions" -> followUpHandler(m)
    [] OTHER -> analyzeHandler(m)

\* analyzeData or generateFollowUpQuestions past the await of its provider call
resumed(m) ==
  IF m.pc = "analyze"
  THEN IF m.call.ok THEN analysisCompleted(m, m.call.value)
       ELSE analysisFailed(m, m.call.value.s)
  ELSE IF m.call.ok THEN followUpCompleted(m, m.call.value.s) ELSE followUpFailed(m)

\* the endpoint handler past the await of the service call
continued(m) == IF m.pc = "analyzed" THEN afterAnalysis(m) ELSE afterFollowUp(m)

Arrives(h) ==
  /\ CurOf(h).pc = "idle"
  /\ \E r \in ConcurrentRequests :
       LET start == [CurOf(h) EXCEPT !.pc = "handling", !.req = r]
       IN /\ AssignTo(h, handle(start))
          /\ solo' = [solo EXCEPT ![h] = [start |-> start, heard |-> <<>>]]
  /\ UNCHANGED <<chat, page, fn, env, now, svc>>

CallSettles(h) ==
  /\ CurOf(h).call.stage \in {"fetch", "invoke"}
  /\ \E o \in ConcurrentOutcomes(CurOf(h).call.purpose) :
       /\ AssignTo(h, settle(CurOf(h), o.ok, o.value))
       /\ solo' = [solo EXCEPT ![h].heard = Append(@, o)]
  /\ UNCHANGED <<chat, page, fn, env, now, svc>>

Resumes(h) ==
  /\ CurOf(h).pc \in {"analyze", "followup"}
  /\ CurOf(h).call.stage = "settled"
  /\ AssignTo(h, resumed(CurOf(h)))
  /\ UNCHANGED <<solo, chat, page, fn, env, now, svc>>

Continues(h) ==
  /\ CurOf(h).pc \in {"analyzed", "followed"}
  /\ AssignTo(h, continued(CurOf(h)))
  /\ UNCHANGED <<solo, chat, page, fn, env, now, svc>>

Leaves(h) ==
  /\ CurOf(h).pc \in {"responded", "unhandled"}
  /\ AssignTo(h, onFrame(CurOf(h), NoFrame))
  /\ solo' = [solo EXCEPT ![h] = [start |-> onFrame(Cur, NoFrame), heard |-> <<>>]]
  /\ UNCHANGED <<chat, page, fn, env, now, svc>>

RequestArrives == \E h \in Handlers : Arrives(h)

BackendSettles == \E h \in Handlers : CallSettles(h)

ServiceResumes == \E h \in Handlers : Resumes(h)

HandlerContinues == \E h \in Handlers : Continues(h)

HandlerLeaves == \E h \in Handlers : Leaves(h)

ConcurrentInit ==
  /\ env \in ConcurrentEnvs
  /\ now = 500
  /\ svc \in {"ts", "js"}
  /\ initialized = FALSE
  /\ inits = 0
  /\ aiProvider = ""
  /\ ollamaModel = ""
  /\ openaiModel = ""
  /\ isAIAvailable = FALSE
  /\ chatModel = FALSE
  /\ pc = "idle"
  /\ req = NoReq
  /\ locals = NoLocals
  /\ call = NoCall
  /\ calls = NoCalls
  /\ analysis = Undefined
  /\ followUp = NoFollowUp
  /\ res = NoRes
  /\ fn = NoFn
  /\ second = NoFrame
  /\ solo = [h \in Handlers |-> NoRun]
  /\ chat = NoChat
  /\ page = NoPage

ConcurrentNext ==
  \/ RequestArrives
  \/ BackendSettles
  \/ ServiceResumes
  \/ HandlerContinues
  \/ HandlerLeaves

ConcurrentSpec == ConcurrentInit /\ [][ConcurrentNext]_vars

(***************************************************************************)
(* Properties                                                              *)
(***************************************************************************)
AnalysisEndpoints == {"/api/ai/analyze", "/api/ai/analyze-with-followup"}

\* the request passes the checks at the head of the analysis endpoints
ValidAnalysisRequest ==
  /\ req.endpoint \in AnalysisEndpoints
  /\ truthy(req.question)
  /\ req.csvData.t = "array"
  /\ Len(req.csvData.kids) > 0

\* analyzeData has returned for the request being handled
AnalysisReturned == analysis.t # "undefined"

nonEmptyText(v) == v.t = "string" /\ Len(v.s) > 0

\* the provider is unconfigured in the environment the service reads
Unconfigured ==
  \/ env.AI_PROVIDER \in {"", "fallback"}
  \/ env.AI_PROVIDER = "ollama" /\ env.OLLAMA_HOST = ""
  \/ env.AI_PROVIDER = "openai" /\ env.OPENAI_API_KEY = ""

ruleBasedAnswer ==
  IF svc = "ts" THEN generateFallbackAnswer(eventsOf(req.csvData), locals.originalQuestion)
  ELSE generateFallbackAnswerJS(eventsOf(req.csvData), locals.originalQuestion)

ruleBasedChart == generateFallbackChart(eventsOf(req.csvData), locals.originalQuestion)

\* C1: the TypeScript analyzeData never throws: a valid analysis request is
\* always inside the call or past it with a result object whose success is a
\* boolean, and every result with success=false carries the non-empty answer
\* the rule-based fallback computes from the events and the question.
C1_AnalyzeNeverThrows ==
  (svc = "ts" /\ ValidAnalysisRequest) =>
    /\ pc \in {"analyze", "analyzed", "followup", "followed", "responded"}
    /\ pc # "analyze" =>
         /\ analysis.t = "object"
         /\ getProp(analysis, "success") \in {Bool(TRUE), Bool(FALSE)}
         /\ getProp(analysis, "success") = Bool(FALSE) =>
              /\ getProp(analysis, "answer") = Str(ruleBasedAnswer)
              /\ nonEmptyText(getProp(analysis, "answer"))

\* a provider call that failed has been turned into a success=false result
C1_Witness ==
  /\ svc = "ts"
  /\ pc = "analyzed"
  /\ calls.analyze = 1
  /\ getProp(analysis, "success") = Bool(FALSE)
  /\ nonEmptyText(getProp(analysis, "answer"))

\* C2 (as claimed): every analysis result, and every answer field the two
\* analysis endpoints send back, holds a present, non-empty answer text.
C2_AnswerAlwaysNonEmpty ==
  /\ AnalysisReturned => nonEmptyText(getProp(analysis, "answer"))
  /\ (pc = "responded" /\ ValidAnalysisRequest) =>
       nonEmptyText(getProp(res.body, "answer"))

\* C3 (as claimed): with an unconfigured provider every analyze call returns
\* success=false and provider='fallback' with the rule-based answer and chart,
\* and sends no completion call to a backend.
C3_UnconfiguredFallsBack ==
  (Unconfigured /\ AnalysisReturned) =>
    /\ getProp(analysis, "success") = Bool(FALSE)
    /\ getProp(analysis, "provider") = Str("fallback")
    /\ getProp(analysis, "answer") = Str(ruleBasedAnswer)
    /\ getProp(analysis, "chart") = ruleBasedChart
    /\ calls.analyze = 0

\* C4: within one analyze call of the TypeScript service at most one
\* completion call is sent; when that call failed (no response was obtained)
\* the result is the rule-based fallback for the same events and question.
C4_AtMostOneCompletion ==
  svc = "ts" =>
    /\ calls.analyze <= 1
    /\ (AnalysisReturned /\ calls.analyze = 1 /\ locals.response.t = "undefined") =>
         /\ getProp(analysis, "success") = Bool(FALSE)
         /\ getProp(analysis, "provider") = Str("fallback")
         /\ getProp(analysis, "answer") = Str(ruleBasedAnswer)
         /\ getProp(analysis, "chart") = ruleBasedChart

\* the one completion call failed and the fallback result carries a chart
C4_Witness ==
  /\ svc = "ts"
  /\ AnalysisReturned
  /\ calls.analyze = 1
  /\ locals.response.t = "undefined"
  /\ getProp(analysis, "provider") = Str("fallback")
  /\ getProp(analysis, "chart").t = "object"

\* the provider call of analyzeData returned a text
ProviderSucceeded == AnalysisReturned /\ locals.response.t = "string"

hasKey(v, key) == getProp(v, key).t # "undefined"

\* the response holds a parseable JSON object with an analysis and a chart key
holdsEnvelope(response) ==
  /\ jsonMatch(response) # ""
  /\ JSONparse(jsonMatch(response)).ok
  /\ hasKey(JSONparse(jsonMatch(response)).v, "analysis")
  /\ hasKey(JSONparse(jsonMatch(response)).v, "chart")

\* success=true with the backend as provider, and a chart only out of an
\* envelope that answers a chart-requiring question
successWithBackend ==
  /\ getProp(analysis, "success") = Bool(TRUE)
  /\ getProp(analysis, "provider") = Str(aiProvider)
  /\ aiProvider \in {"ollama", "openai"}
  /\ getProp(analysis, "chart") # Null =>
       (locals.requiresChart /\ holdsEnvelope(locals.response.s))

\* C5 (as claimed): after a successful provider call the result is
\* success=true with the backend as provider; the chart is non-null only for a
\* chart-requiring question whose response holds the envelope; in every other
\* case the answer is the whole response text, trimmed, and chart=null.
C5_AnswerIsTrimmedResponse ==
  (svc = "ts" /\ ProviderSucceeded) =>
    /\ successWithBackend
    /\ ~(locals.requiresChart /\ holdsEnvelope(locals.response.s)) =>
         /\ getProp(analysis, "answer") = Str(trim(locals.response.s))
         /\ getProp(analysis, "chart") = Null

\* C5 (amended): as C5, except that the answer of the other cases is the
\* response text exactly as the provider call returned it when no chart was
\* requested, and, when one was requested, the trimmed text or the sentence
\* 'Analysis completed successfully.' for an empty response.
C5_AnswerIsResponseAsParsed ==
  (svc = "ts" /\ ProviderSucceeded) =>
    /\ successWithBackend
    /\ ~(locals.requiresChart /\ holdsEnvelope(locals.response.s)) =>
         /\ getProp(analysis, "chart") = Null
         /\ getProp(analysis, "answer") =
              Str(IF ~locals.requiresChart THEN locals.response.s
                  ELSE IF locals.response.s = "" THEN "Analysis completed successfully."
                  ELSE trim(locals.response.s))

\* a chart-requiring question answered in prose: the trimmed prose, no chart
C5_Witness ==
  /\ svc = "ts"
  /\ ProviderSucceeded
  /\ locals.requiresChart
  /\ jsonMatch(locals.response.s) = ""
  /\ locals.response.s # trim(locals.response.s)
  /\ getProp(analysis, "answer") = Str(trim(locals.response.s))
  /\ getProp(analysis, "chart") = Null

\* C6 (as claimed): every chart of an analysis result, rule-based or taken
\* from the model's envelope, has 1 to 10 points, a pie chart at most 8; a
\* chart without points is never returned as an object.
C6_ChartPointBounds ==
  (AnalysisReturned /\ getProp(analysis, "chart").t = "object") =>
    /\ getProp(getProp(analysis, "chart"), "data").t = "array"
    /\ Len(getProp(getProp(analysis, "chart"), "data").kids) \in 1..10
    /\ getProp(getProp(analysis, "chart"), "type") = Str("pie") =>
         Len(getProp(getProp(analysis, "chart"), "data").kids) <= 8

\* C7: generateFollowUpQuestions of the TypeScript service, given an answer
\* text, never rejects and settles with exactly two non-empty strings,
\* whether the provider was unavailable, failed, or answered with fewer than
\* two or with two or more usable lines.
C7_ExactlyTwoFollowUps ==
  (svc = "ts" /\ followUp.settled /\ locals.aiResponse.t = "string") =>
    /\ ~followUp.thrown
    /\ Len(followUp.questions) = 2
    /\ \A i \in 1..Len(followUp.questions) : Len(followUp.questions[i]) > 0

\* the two questions are the two lines the provider answered with
C7_Witness ==
  /\ svc = "ts"
  /\ followUp.settled
  /\ calls.followup = 1
  /\ locals.aiResponse.t = "string"
  /\ followUp.questions = <<"Which countries send the bots?", "How many visitors use a VPN?">>

\* C8 (as claimed): an analysis request without a question or without a
\* non-empty event array is answered 400 with success=false and never reaches
\* the service; a valid analysis request is never answered with a failure.
C8_OnlyInputErrorsFail ==
  req.endpoint \in AnalysisEndpoints =>
    /\ ~ValidAnalysisRequest =>
         /\ pc = "responded"
         /\ res.status = 400
         /\ getProp(res.body, "success") = Bool(FALSE)
         /\ ~AnalysisReturned
         /\ calls.analyze = 0
    /\ ValidAnalysisRequest =>
         /\ pc # "unhandled"
         /\ pc = "responded" =>
              (res.status = 200 /\ getProp(res.body, "success") = Bool(TRUE))

\* C9 (as claimed): once the service is initialized, no step changes the
\* triple (provider, isAvailable, model) that getStatus reports.
C9_StatusNeverChanges ==
  [][initialized => (initialized' /\ statusOf(Cur)' = statusOf(Cur))]_vars

\* C10 (as claimed): a completion call of the TypeScript service never hangs:
\* whenever it waits on the backend, for the headers, for the body or for
\* chatModel.invoke, a timeout that ends the call is pending.
C10_EveryWaitTimesOut ==
  (svc = "ts" /\ call.stage \in {"fetch", "json", "text", "invoke"}) =>
    ENABLED (TimerFires \/ InvokeTimesOut)

(***************************************************************************)
(* Properties of the functions applied directly                            *)
(***************************************************************************)
Categories == {"visitor", "security", "geographic", "browser"}

\* the keywords both rule-based functions test for a category
categoryKeywords(category) ==
  CASE category = "visitor"    -> {"visitor", "activity"}
    [] category = "security"   -> {"security", "vpn", "bot"}
    [] category = "geographic" -> {"geograph", "location", "country"}
    [] category = "browser"    -> {"browser", "device"}

matchesCategory(question, category) ==
  \E k \in categoryKeywords(category) : includes(toLowerCase(question), k)

\* first match in the order visitor, security, geographic, browser, generic
firstCategory(question) ==
  IF matchesCategory(question, "visitor") THEN "visitor"
  ELSE IF matchesCategory(question, "security") THEN "security"
  ELSE IF matchesCategory(question, "geographic") THEN "geographic"
  ELSE IF matchesCategory(question, "browser") THEN "browser"
  ELSE "generic"

matchesSeveral(question) ==
  Cardinality({c \in Categories : matchesCategory(question, c)}) >= 2

\* the category a rule-based answer text belongs to
answerCategory(text) ==
  IF startsWith(text, "I can see ") THEN "visitor"
  ELSE IF startsWith(text, "Security analysis ") THEN "security"
  ELSE IF startsWith(text, "Geographic analysis ") THEN "geographic"
  ELSE IF startsWith(text, "Browser analysis ") THEN "browser"
  ELSE "generic"

\* the category a rule-based chart belongs to; no chart and the overview
\* chart of the visualization keywords are generic
chartCategory(chart) ==
  IF chart = Null THEN "generic"
  ELSE IF getProp(chart, "title") = Str("Top 10 Visitors by Request Count") THEN "visitor"
  ELSE IF getProp(chart, "title") = Str("Security Threat Analysis") THEN "security"
  ELSE IF getProp(chart, "title") = Str("Geographic Distribution by Country") THEN "geographic"
  ELSE IF getProp(chart, "title") = Str("Browser Usage Distribution") THEN "browser"
  ELSE "generic"

\* the rule-based result has been built for the question and events drawn
FallbackBuilt == fn.op = "unavailableResult"

fallbackAnswerText == getProp(fn.out.value, "answer").s

fallbackChartValue == getProp(fn.out.value, "chart")

\* C11 (as claimed): for a question with keywords of several categories both
\* the rule-based answer and the rule-based chart are those of the first
\* matching category in the order visitor, security, geographic, browser.
C11_FirstMatchOrder ==
  (FallbackBuilt /\ matchesSeveral(fn.question)) =>
    /\ answerCategory(fallbackAnswerText) = firstCategory(fn.question)
    /\ chartCategory(fallbackChartValue) = firstCategory(fn.question)

\* the summarizer, full or fast, has been applied to the collection drawn
Summarized == fn.op \in {"prepareDataSummary", "prepareFastDataSummary"}

eventCount == Len(eventsOrNone(fn.csvData))

\* the sentinel, or the digest, the summary of the collection has to be
summaryAsClaimed ==
  IF eventCount = 0
  THEN fn.out.value = Str(IF fn.op = "prepareDataSummary"
                          THEN "No data available for analysis."
                          ELSE "No data available.")
  ELSE IF eventCount <= 100
  THEN startsWith(fn.out.value.s,
                  "Limited data available (" \o numToString(eventCount) \o " events).")
  ELSE startsWith(fn.out.value.s,
                  IF fn.op = "prepareDataSummary"
                  THEN "Events: " \o numToString(eventCount) \o ", Visitors: "
                  ELSE "Total: " \o numToString(eventCount) \o " events, ")

\* C12 (as claimed): the summarizer, full and fast, never raises; it returns
\* the no-data sentinel for an empty or absent collection, the limited-data
\* sentinel naming the count for 1 to 100 events, and the digest only for
\* more than 100 events.
C12_SummarizerNeverRaises ==
  Summarized => (~fn.out.thrown /\ summaryAsClaimed)

(***************************************************************************)
(* Properties of the fallback result of a request                          *)
(***************************************************************************)
\* the question has keywords of the security category and of no other
securityOnly(question) ==
  {c \in Categories : matchesCategory(question, c)} = {"security"}

requestEvents == eventsOf(req.csvData)

requestVpn == Cardinality({i \in 1..Len(requestEvents) : requestEvents[i].vpnDetected})

requestBot == Cardinality({i \in 1..Len(requestEvents) : requestEvents[i].botDetected})

requestClean ==
  Cardinality({i \in 1..Len(requestEvents) :
                 ~requestEvents[i].vpnDetected /\ ~requestEvents[i].botDetected})

\* t tenths of a percent written with one decimal
tenthsText(t) == numToString(t \div 10) \o "." \o numToString(t % 10)

\* t / 10 is num / den as a percentage, rounded to one decimal
roundsTo(t, num, den) ==
  /\ 2 * den * t <= 2000 * num + den
  /\ 2 * den * t >= 2000 * num - den

\* the three security categories with their counts, zero counts left out
securityPointsExpected ==
  {point(p[1], p[2]) : p \in {q \in {<<"VPN Detected", requestVpn>>,
                                     <<"Bot Detected", requestBot>>,
                                     <<"Clean Requests", requestClean>>} : q[2] > 0}}

\* the TypeScript service answered a security question without a provider
SecurityFallbackReturned ==
  /\ svc = "ts"
  /\ Unconfigured
  /\ AnalysisReturned
  /\ securityOnly(locals.originalQuestion)

geographicOnly(question) ==
  {c \in Categories : matchesCategory(question, c)} = {"geographic"}

GeographicFallbackBuilt == FallbackBuilt /\ geographicOnly(fn.question)

\* the countries of the events drawn; an event without a country has none
countriesSeen == {fn.csvData.events[i].country : i \in 1..Len(fn.csvData.events)} \ {""}

eventsIn(country) ==
  Cardinality({i \in 1..Len(fn.csvData.events) : fn.csvData.events[i].country = country})

geoData == getProp(fallbackChartValue, "data").kids

descending(data) ==
  \A i \in 1..Len(data), j \in 1..Len(data) :
    i < j => getProp(data[i], "value").n >= getProp(data[j], "value").n

\* C14 (as claimed): for a geographic question without a provider the chart
\* is a bar chart with one point per distinct country of the events, valued
\* at the country's event count, ordered by count descending.
C14_OnePointPerCountry ==
  GeographicFallbackBuilt =>
    /\ getProp(fallbackChartValue, "type") = Str("bar")
    /\ Len(geoData) = Cardinality(countriesSeen)
    /\ \A c \in countriesSeen : \E i \in 1..Len(geoData) : geoData[i] = point(c, eventsIn(c))
    /\ descending(geoData)

\* C14 (amended): the bar chart holds one point per distinct named country
\* (not empty, not 'Unknown'), valued at its event count, for the 8 most
\* frequent countries at most, ordered by count descending; when no event
\* has a named country it holds the single point ('No Data', 1).
C14_TopCountriesDescending ==
  GeographicFallbackBuilt =>
    /\ getProp(fallbackChartValue, "type") = Str("bar")
    /\ IF countriesSeen \ {"Unknown"} = {}
       THEN geoData = <<point("No Data", 1)>>
       ELSE /\ Len(geoData) = IF Cardinality(countriesSeen \ {"Unknown"}) > 8 THEN 8
                              ELSE Cardinality(countriesSeen \ {"Unknown"})
            /\ \A i \in 1..Len(geoData) :
                 \E c \in countriesSeen \ {"Unknown"} : geoData[i] = point(c, eventsIn(c))
            /\ \A i \in 1..Len(geoData), j \in 1..Len(geoData) :
                 i # j => getProp(geoData[i], "name") # getProp(geoData[j], "name")
            /\ descending(geoData)
            /\ \A c \in countriesSeen \ {"Unknown"} :
                 \/ \E i \in 1..Len(geoData) : getProp(geoData[i], "name") = Str(c)
                 \/ eventsIn(c) <= getProp(geoData[Len(geoData)], "value").n

\* countries first seen as Brazil, Austria, Cuba come out by count
C14_Witness ==
  /\ GeographicFallbackBuilt
  /\ geoData = <<point("Austria", 3), point("Brazil", 2), point("Cuba", 1)>>

(***************************************************************************)
(* Properties of small collections                                         *)
(***************************************************************************)
\* a valid analysis request of the TypeScript service with 100 events or fewer
SmallRequest ==
  /\ svc = "ts"
  /\ ValidAnalysisRequest
  /\ Len(requestEvents) <= 100

limitedDataSentinel ==
  "Limited data available (" \o numToString(Len(requestEvents)) \o " events)."

requestVisitors == Cardinality({requestEvents[i].visitorId : i \in 1..Len(requestEvents)})

PureFunctions ==
  {"prepareDataSummary", "prepareFastDataSummary", "prepareDataSummaryJS",
   "generateFallbackChart"}

\* C16 (as claimed): the summarizer and the rule-based chart are pure: a
\* second application to the same events and question returns what the first
\* returned, whatever time has passed and whatever was called in between,
\* and an application changes neither the service fields nor its inputs.
C16_SameInputSameOutput ==
  [][/\ (fn.op \in PureFunctions /\ fn'.op = fn.op) => fn'.out = fn.out
     /\ fn'.op \in PureFunctions =>
          /\ fn'.csvData = fn.csvData
          /\ fn'.question = fn.question
          /\ UNCHANGED <<initialized, aiProvider, ollamaModel, openaiModel,
                         isAIAvailable, chatModel>>]_vars

(***************************************************************************)
(* Properties of the configuration                                         *)
(***************************************************************************)
\* C17 (as claimed): with AI_PROVIDER=ollama and OLLAMA_HOST unset the
\* service falls back on the documented host http://localhost:11434: once
\* initialized its status is provider 'ollama' with isAvailable=true, and
\* every analysis is sent to the backend instead of being answered by rule.
C17_DefaultOllamaHost ==
  (env.AI_PROVIDER = "ollama" /\ env.OLLAMA_HOST = "" /\ initialized) =>
    /\ statusOf(Cur).provider = "ollama"
    /\ statusOf(Cur).isAvailable
    /\ AnalysisReturned => calls.analyze = 1

(***************************************************************************)
(* Properties of the fallback pair of answer and chart                     *)
(***************************************************************************)
\* the keywords of the generic visualization branch of the chart
hasVisualizationKeyword(question) ==
  \E k \in {"chart", "graph", "visualize", "show me"} : includes(toLowerCase(question), k)

\* C18 (as claimed): on the fallback path the category of the rule-based
\* answer is the category of the rule-based chart, and a generic answer comes
\* with no chart unless the question holds a generic visualization keyword.
C18_ChartMatchesAnswer ==
  FallbackBuilt =>
    /\ chartCategory(fallbackChartValue) = answerCategory(fallbackAnswerText)
    /\ (answerCategory(fallbackAnswerText) = "generic" /\ fallbackChartValue # Null) =>
         hasVisualizationKeyword(fn.question)

(***************************************************************************)
(* Properties of the follow-up generators                                  *)
(***************************************************************************)
\* C19 (as claimed): when the provider answers the follow-up prompt with the
\* numbered lines '1. A' and '2. B' the generator strips the numbering and
\* returns [A, B].
C19_NumberingStripped ==
  (/\ fn.op = "followUpFromResponse"
   /\ fn.arg.reply = "1. Which countries send the bots?\n2. How many visitors use a VPN?") =>
    fn.out.value = strings(<<"Which countries send the bots?",
                             "How many visitors use a VPN?">>)

hasAnyOf(text, keywords) == \E k \in keywords : includes(toLowerCase(text), k)

\* first match in the order security, geographic, visitor, browser, generic
answerTopic(text) ==
  IF hasAnyOf(text, {"security", "vpn", "bot", "threat"}) THEN "security"
  ELSE IF hasAnyOf(text, {"geographic", "country", "location"}) THEN "geographic"
  ELSE IF hasAnyOf(text, {"visitor", "activity", "behavior"}) THEN "visitor"
  ELSE IF hasAnyOf(text, {"browser", "device", "technology"}) THEN "browser"
  ELSE "generic"

\* the deeper pair of a topic
deeperPair(topic) ==
  CASE topic = "security"   -> <<"What specific security measures should I implement?",
                                 "How do these threats compare to industry averages?">>
    [] topic = "geographic" -> <<"Which regions show unusual activity patterns?",
                                 "How does geographic distribution affect security?">>
    [] topic = "visitor"    -> <<"Which visitors show suspicious behavior patterns?",
                                 "How do visitor patterns change over time?">>
    [] topic = "browser"    -> <<"Which browsers are most commonly used by bots?",
                                 "How do device types correlate with security threats?">>
    [] OTHER                -> <<"What are the most significant data patterns?",
                                 "How do these insights compare to benchmarks?">>

\* the broader pairs of a topic, in the wording of either generator
broaderPairs(topic) ==
  CASE topic = "security"   -> {<<"Show me security threats", "Analyze VPN patterns">>,
                                <<"Show me detailed security threats",
                                  "Analyze VPN usage patterns">>}
    [] topic = "geographic" -> {<<"Show geographic distribution", "Analyze location patterns">>,
                                <<"Show me geographic distribution",
                                  "Analyze location patterns">>}
    [] topic = "visitor"    -> {<<"Show visitor patterns", "Analyze user behavior">>,
                                <<"Show me visitor patterns", "Analyze user behavior">>}
    [] topic = "browser"    -> {<<"Show browser usage", "Analyze device patterns">>,
                                <<"Show me browser usage", "Analyze device patterns">>}
    [] OTHER                -> {<<"Show data patterns", "Analyze insights">>,
                                <<"Show me data patterns", "Analyze insights">>}

CannedPairBuilt ==
  fn.op \in {"generateFallbackFollowUpQuestions", "generateFollowUpQuestionsApp"}

\* C20 (as claimed): the canned follow-up pair is that of the first topic the
\* answer text matches in the order security, geographic, visitor, browser,
\* generic, in its deeper variant exactly when isDeeper=true and in its
\* broader variant otherwise; an answer with 'VPN' and 'bot' and
\* isDeeper=false yields the security broader pair.
C20_CannedPairByFirstMatch ==
  CannedPairBuilt =>
    \E pair \in (IF fn.arg.isDeeper THEN {deeperPair(answerTopic(fn.arg.text))}
                 ELSE broaderPairs(answerTopic(fn.arg.text))) :
      fn.out.value = strings(pair)

(***************************************************************************)
(* Properties of the chart builder's null result                           *)
(***************************************************************************)
ChartBuilt == fn.op = "generateFallbackChart"

namesCategory(question) == \E c \in Categories : matchesCategory(question, c)

\* C21 (as claimed): the rule-based chart is null exactly when the question
\* matches none of the categories visitor, geographic, security, browser and
\* holds no generic visualization keyword; a question that names no category
\* and asks for no visualization receives no chart.
C21_NullExactlyWhenNothingMatches ==
  ChartBuilt =>
    (fn.out.value = Null
       <=> (~namesCategory(fn.question) /\ ~hasVisualizationKeyword(fn.question)))

(***************************************************************************)
(* Properties of the context extraction                                    *)
(***************************************************************************)
\* prior answers a question may carry: plain, empty, holding a double quote
PriorAnswers == {"Two bots were seen", "", "The \"visitor\" count is 3"}

\* the convention by which a question carries the prior answer
embedded(ctx, q) == "Previous AI response: \"" \o ctx \o "\". User question: " \o q

HeadApplied == fn.op = "analysisPlan"

planned(key) == getProp(fn.out.value, key)

\* everything derived from the question is what the bare question q derives
asOfQuestionAlone(q) ==
  /\ planned("originalQuestion") = Str(q)
  /\ planned("isFastMode") = Bool(isFastModeQuestion(q))
  /\ planned("requiresChart") = Bool(questionRequiresChart(q))
  /\ planned("userPrompt") = Str(userPromptTS(q, questionRequiresChart(q)))
  /\ getProp(planned("unavailable"), "answer")
       = Str(generateFallbackAnswer(fn.csvData.events, q))
  /\ getProp(planned("unavailable"), "chart") = generateFallbackChart(fn.csvData.events, q)

\* C22 (as claimed): for a question carrying an embedded prior answer, the
\* classification, the user prompt and the rule-based answer and chart are
\* those of the user question alone, whatever the prior answer is, an empty
\* one and one holding a double quote included.
C22_ContextParsedOut ==
  HeadApplied =>
    \A ctx \in PriorAnswers, q \in Questions :
      fn.question = embedded(ctx, q) => asOfQuestionAlone(q)

(***************************************************************************)
(* Properties of the top lists of the digest                               *)
(***************************************************************************)
DigestBuilt ==
  fn.op = "prepareDataSummary" /\ ~fn.out.thrown /\ eventCount > SummaryThreshold

occurrences(labels, a) == Cardinality({i \in DOMAIN labels : labels[i] = a})

firstSeen(labels, a) ==
  CHOOSE i \in DOMAIN labels : labels[i] = a /\ \A j \in 1..(i - 1) : labels[j] # a

\* a comes before b: more events, or as many and seen first
ahead(labels, a, b) ==
  \/ occurrences(labels, a) > occurrences(labels, b)
  \/ /\ occurrences(labels, a) = occurrences(labels, b)
     /\ firstSeen(labels, a) < firstSeen(labels, b)

placeOf(labels, names, a) == Cardinality({b \in names : ahead(labels, b, a)})

\* the five names at most that come first, each printed by its first `shown`
\* characters and its count
topFiveText(labels, names, shown) ==
  LET n == IF Cardinality(names) < 5 THEN Cardinality(names) ELSE 5
      at(k) == CHOOSE a \in names : placeOf(labels, names, a) = k - 1
  IN  join([k \in 1..n |->
              slice(at(k), 0, shown) \o "(" \o numToString(occurrences(labels, at(k))) \o ")"],
           ", ")

labelsOf(field) == [i \in 1..eventCount |-> fn.csvData.events[i][field]]

namesOf(field) == {fn.csvData.events[i][field] : i \in 1..eventCount}

endsWith(s, tail) == Len(tail) <= Len(s) /\ SubSeq(s, Len(s) - Len(tail) + 1, Len(s)) = tail

CombinedRequest == req.endpoint = "/api/ai/analyze-with-followup" /\ ValidAnalysisRequest

\* a follow-up completion call is in flight or has settled
FollowUpAsked == call.purpose = "followup"

isPair(v) == v.t = "array" /\ Len(v.kids) = 2 /\ \A i \in 1..2 : nonEmptyText(v.kids[i])

\* C26 (as claimed): on the combined endpoint the follow-up questions are
\* asked for only once the analysis has returned and from the answer it
\* produced; every valid request receives a response, and the response
\* carries success=true, the answer and chart of the analysis and a pair of
\* follow-up questions, also when the follow-up generation failed.
C26_FollowUpsAfterAnalysis ==
  CombinedRequest =>
    /\ pc # "unhandled"
    /\ FollowUpAsked =>
         /\ AnalysisReturned
         /\ call.userPrompt = followUpUserPrompt(getProp(analysis, "answer"))
    /\ pc = "responded" =>
         /\ res.status = 200
         /\ getProp(res.body, "success") = Bool(TRUE)
         /\ getProp(res.body, "answer") = getProp(analysis, "answer")
         /\ getProp(res.body, "chart") = getProp(analysis, "chart")
         /\ isPair(getProp(res.body, "followUpQuestions"))

(***************************************************************************)
(* Properties of the result of an analysis                                 *)
(***************************************************************************)
\* an analysis result has been built by one of the services
ResultBuilt == fn.op \in {"unavailableResult", "analyzeDataApp"}

failed(result) == getProp(result, "success") = Bool(FALSE)

viaFallback(result) == getProp(result, "provider") = Str("fallback")

hasError(result) == nonEmptyText(getProp(result, "error"))

coincide(result) ==
  /\ getProp(result, "success").t = "boolean"
  /\ failed(result) <=> viaFallback(result)
  /\ failed(result) <=> hasError(result)
  /\ ~failed(result) => getProp(result, "provider") \in {Str("ollama"), Str("openai")}

\* C27 (as claimed): in every result analyze returns, success=false,
\* provider='fallback' and a present error detail coincide; a success=true
\* result names the local or the cloud backend and carries no error detail.
C27_FailureFallbackErrorCoincide == ResultBuilt => coincide(fn.out.value)

(***************************************************************************)
(* Properties of the model identifier                                      *)
(***************************************************************************)
\* a completion request to the local backend is on its way or being answered
LocalRequestSent == call.stage \in {"fetch", "json", "text"}

\* C28 (as claimed): with AI_PROVIDER=ollama the model identifier the status
\* query reports is the one named in every completion request sent to the
\* local backend, and it is OLLAMA_MODEL when that variable is set.
C28_StatusModelIsRequestModel ==
  (initialized /\ env.AI_PROVIDER = "ollama") =>
    /\ env.OLLAMA_MODEL # "" => statusOf(Cur).model = env.OLLAMA_MODEL
    /\ LocalRequestSent => call.model = statusOf(Cur).model

(***************************************************************************)
(* Properties of two requests in flight at once                            *)
(***************************************************************************)
FirstCalls == {"/api/ai/status", "/api/ai/analyze", "/api/ai/analyze-with-followup"}

\* handler h is running a request that went through initializeAI
pastInitialize(h) == CurOf(h).pc # "idle" /\ CurOf(h).req.endpoint \in FirstCalls

\* the fields as the constructor leaves them
AsConstructed ==
  /\ aiProvider = ""
  /\ ollamaModel = ""
  /\ openaiModel = ""
  /\ ~isAIAvailable
  /\ ~chatModel

\* the fields initializeAI derives from the environment alone
FullyConfigured ==
  /\ aiProvider = orDefault(env.AI_PROVIDER, "fallback")
  /\ ollamaModel = orDefault(env.OLLAMA_MODEL, "llama3.2")
  /\ openaiModel # ""
  /\ chatModel = (aiProvider = "openai" /\ env.OPENAI_API_KEY # "")
  /\ (svc = "ts" => isAIAvailable = (aiProvider \in {"ollama", "openai"}))

\* C24: however the first calls interleave, the body of initializeAI runs at
\* most once, the fields are either all as constructed or all configured, and
\* a call that went through initializeAI sees them configured.
C24_InitializedExactlyOnce ==
  /\ inits <= 1
  /\ initialized <=> inits = 1
  /\ IF initialized THEN FullyConfigured ELSE AsConstructed
  /\ \A h \in Handlers : pastInitialize(h) => initialized

\* an analysis waits for its backend while a status request that arrived
\* after it has been answered
C24_Witness ==
  /\ req.endpoint = "/api/ai/analyze"
  /\ call.stage \in {"fetch", "invoke"}
  /\ second.req.endpoint = "/api/ai/status"
  /\ second.pc = "responded"
  /\ inits = 1

\* the request of a handler run alone on the service as the request found
\* it, hearing from the backend what the handler heard
RECURSIVE alone(_, _)
alone(m, heard) ==
  IF m.pc \in {"responded", "unhandled"} THEN m
  ELSE IF m.pc \in {"analyzed", "followed"} THEN alone(continued(m), heard)
  ELSE IF m.call.stage = "settled" THEN alone(resumed(m), heard)
  ELSE IF heard = <<>> THEN m
  ELSE alone(settle(m, heard[1].ok, heard[1].value), Tail(heard))

finished(h) == CurOf(h).pc \in {"responded", "unhandled"}

sameAsAlone(h) ==
  LET m == alone(handle(solo[h].start), solo[h].heard)
  IN m.pc = CurOf(h).pc /\ m.res = CurOf(h).res

ServiceFields ==
  <<initialized, aiProvider, ollamaModel, openaiModel, isAIAvailable, chatModel>>

\* every finished request ended as its run alone ends
C25_ResultsAsAlone == \A h \in Handlers : finished(h) => sameAsAlone(h)

\* C25 (as claimed): with two requests in flight, each ends, in a response or
\* in a rejection, as it ends when run alone with the same body and the same
\* backend outcomes, and once the service is configured no request writes a
\* field of the service.
C25_NoInterference ==
  /\ [](\A h \in Handlers : finished(h) => sameAsAlone(h))
  /\ [][initialized => UNCHANGED ServiceFields]_vars

(***************************************************************************)
(* The chat widget (AIChat)                                                *)
(***************************************************************************)
MaxMessages == 5

Greeting == "Hello! I'm your FingerprintJS AI analytics assistant. I can analyze your identification events and provide deep insights into visitor patterns, security threats, geographic distribution, and more. Ask me anything about your data!"

ChatApology == "I apologize, but I encountered an error while analyzing your data. Please try rephrasing your question."

message(type, content, chart) == [type |-> type, content |-> content, chart |-> chart]

\* the first entry of the visitors by count; none for an empty collection
mostActive(csvData) == firstN(sortDesc(countBy(visitorIds(csvData), <<>>)), 1)

topCountryOf(csvData) == firstN(sortDesc(countBy(countries(csvData), <<>>)), 1)

\* avgConfidence > 0.8 ? 'high' : avgConfidence > 0.6 ? 'moderate' : 'low',
\* the confidences held in hundredths; NaN compares false
accuracyOf(csvData) ==
  LET sum == confidenceSum(csvData, 1, Len(csvData))
  IN  IF Len(csvData) > 0 /\ sum > 80 * Len(csvData) THEN "high"
      ELSE IF Len(csvData) > 0 /\ sum > 60 * Len(csvData) THEN "moderate"
      ELSE "low"

\* generateFallbackResponse of the widget: its text, or the TypeError of
\* indexing the first entry of an empty list of counts
generateFallbackResponse(csvData, question) ==
  LET lowerQuestion == toLowerCase(question)
      totalEvents == numToString(Len(csvData))
      uniqueVisitors == numToString(sizeOfSet(visitorIds(csvData)))
      uniqueIPs == numToString(sizeOfSet(fieldOf(csvData, "ipAddress")))
      uniqueCountries == numToString(sizeOfSet(named(fieldOf(csvData, "country"))))
      vpnDetected == numToString(vpnCount(csvData))
      botDetected == numToString(botCount(csvData))
      avgConfidence == IF Len(csvData) = 0 THEN "NaN" ELSE avgToFixed2(csvData)
      text(t) == [thrown |-> FALSE, value |-> Str(t)]
      typeError(t) == [thrown |-> TRUE, value |-> Str(t)]
  IN  IF includes(lowerQuestion, "visitor") \/ includes(lowerQuestion, "activity")
      THEN IF mostActive(csvData) = <<>>
           THEN typeError("Cannot read properties of undefined (reading '0')")
           ELSE text("Your FingerprintJS data shows " \o totalEvents
                     \o " identification events from " \o uniqueVisitors
                     \o " unique visitors. The most active visitor ("
                     \o slice(mostActive(csvData)[1][1], 0, 8) \o "...) has generated "
                     \o numToString(mostActive(csvData)[1][2])
                     \o " requests. This represents concentrated activity patterns that could indicate regular users or potential bot activity.")
      ELSE IF includes(lowerQuestion, "location") \/ includes(lowerQuestion, "country")
              \/ includes(lowerQuestion, "geographic")
      THEN IF topCountryOf(csvData) = <<>>
           THEN typeError("Cannot read properties of undefined (reading '1')")
           ELSE text("Geographic analysis shows activity from " \o uniqueCountries
                     \o " countries across " \o uniqueIPs
                     \o " unique IP addresses. The majority of requests ("
                     \o numToString(topCountryOf(csvData)[1][2]) \o " events) come from "
                     \o topCountryOf(csvData)[1][1]
                     \o ". This geographic distribution helps identify your user base and detect unusual access patterns.")
      ELSE IF includes(lowerQuestion, "security") \/ includes(lowerQuestion, "vpn")
              \/ includes(lowerQuestion, "threat")
      THEN text("Security analysis shows " \o vpnDetected \o " VPN connections and "
                \o botDetected \o " bot detections out of " \o totalEvents
                \o " total events ("
                \o ratioToFixed((vpnCount(csvData) + botCount(csvData)) * 100, Len(csvData), 1)
                \o "% potential threats). The average confidence score is " \o avgConfidence
                \o ", indicating " \o accuracyOf(csvData) \o " identification accuracy.")
      ELSE text("I've analyzed your FingerprintJS dataset with " \o totalEvents
                \o " identification events. Key insights: " \o uniqueVisitors
                \o " unique visitors, " \o uniqueIPs \o " IP addresses, " \o uniqueCountries
                \o " countries, " \o vpnDetected \o " VPN detections, and " \o botDetected
                \o " bot detections. The average confidence score is " \o avgConfidence
                \o ". This data provides comprehensive visitor tracking and security insights for your application.")

\* the visitors by count as { visitor, requests } points, the first `cap`
requestPoints(csvData, cap) ==
  LET top == firstN(sortDesc(countBy(visitorIds(csvData), <<>>)), cap)
  IN  Arr([i \in 1..Len(top) |->
             Obj(<<<<"visitor", Str(slice(top[i][1], 0, 8) \o "...")>>,
                   <<"requests", Num(top[i][2])>>>>)])

chatChart(type, data, title) ==
  Obj(<<<<"type", Str(type)>>, <<"data", data>>, <<"title", Str(title)>>>>)

\* generateFallbackChart of the widget
generateFallbackChartChat(csvData, question) ==
  LET lowerQuestion == toLowerCase(question)
  IN  IF includes(lowerQuestion, "visitor") \/ includes(lowerQuestion, "activity")
      THEN chatChart("bar", requestPoints(csvData, 10), "Top 10 Visitors by Request Count")
      ELSE IF includes(lowerQuestion, "security") \/ includes(lowerQuestion, "threat")
      THEN chatChart("pie",
                     Arr(SelectSeq(<<point("VPN Detected", vpnCount(csvData)),
                                     point("Bot Detected", botCount(csvData)),
                                     point("Clean Requests", cleanCount(csvData))>>,
                                   LAMBDA item : getProp(item, "value").n > 0)),
                     "Security Threat Analysis")
      ELSE chatChart("bar", requestPoints(csvData, 8), "Visitor Activity Overview")

\* the widget as first rendered over the events it is given
mountedChat(csvData) ==
  [mounted |-> TRUE, csvData |-> csvData,
   messages |-> <<message("ai", Str(Greeting), Undefined)>>,
   inputValue |-> "", isTyping |-> FALSE, flights |-> <<>>]

without(seq, i) == SubSeq(seq, 1, i - 1) \o SubSeq(seq, i + 1, Len(seq))

\* handleSendMessage up to its await of fetch
handleSendMessage(c) ==
  IF trim(c.inputValue) = "" THEN c
  ELSE [c EXCEPT !.messages = Append(@, message("user", Str(c.inputValue), Undefined)),
                 !.inputValue = "",
                 !.isTyping = TRUE,
                 !.flights = Append(@, [question |-> c.inputValue, stage |-> "fetch"])]

\* the finally block, after which the call's promise settles
finallyDone(c, i) == [c EXCEPT !.isTyping = FALSE, !.flights = without(@, i)]

\* the try block past `await response.json()`
answered(c, i, result) ==
  finallyDone([c EXCEPT !.messages =
                 Append(@, IF truthy(getProp(result, "success"))
                           THEN message("ai", getProp(result, "answer"),
                                        getProp(result, "chart"))
                           ELSE message("ai", orElse(getProp(result, "fallbackAnswer"),
                                                     Str(ChatApology)),
                                        Undefined))],
              i)

\* the catch block: a throw of generateFallbackResponse leaves it at once
caught(c, i) ==
  LET question == c.flights[i].question
      fallbackResponse == generateFallbackResponse(c.csvData, question)
  IN  IF fallbackResponse.thrown THEN finallyDone(c, i)
      ELSE finallyDone([c EXCEPT !.messages =
                          Append(@, message("ai", fallbackResponse.value,
                                            generateFallbackChartChat(c.csvData, question)))],
                       i)

ChatCollections == {<<>>, EventsUpTo(MaxEvents)}

ChatTexts == {"", " ", "How many events in total?"}

BadgeTexts ==
  {"Analyze visitor activity patterns and identify unusual behavior",
   "What are the security threats in my data and how should I address them?",
   "Analyze geographic distribution and identify potential fraud patterns",
   "What insights can you provide about browser and device usage patterns?"}

\* the parsed bodies /api/ai/analyze answers with: its 200, its 500 as the
\* server sends it with fallbackAnswer and as server.js sends it with answer,
\* and its 400
ChatResults ==
  {Obj(<<<<"success", Bool(TRUE)>>, <<"answer", Str("Most traffic is clean.")>>,
         <<"isFallback", Bool(FALSE)>>, <<"provider", Str("ollama")>>>>),
   Obj(<<<<"success", Bool(FALSE)>>, <<"error", Str("Connection error.")>>,
         <<"fallbackAnswer", Str(Apology)>>, <<"provider", Str("fallback")>>>>),
   Obj(<<<<"success", Bool(FALSE)>>, <<"error", Str("Connection error.")>>,
         <<"answer", Str(Apology)>>, <<"provider", Str("fallback")>>>>),
   Obj(<<<<"success", Bool(FALSE)>>,
         <<"error", Str("CSV data is required and must be a non-empty array")>>>>)}

ChatStep(c) ==
  /\ chat' = c
  /\ UNCHANGED <<env, now, svc, initialized, inits, aiProvider, ollamaModel, openaiModel,
                 isAIAvailable, chatModel, pc, req, locals, call, calls, analysis,
                 followUp, res, fn, second, solo, page>>

\* the input's onChange; a disabled input takes no keystroke
TypeText ==
  /\ ~chat.isTyping
  /\ \E text \in ChatTexts : ChatStep([chat EXCEPT !.inputValue = text])

\* a suggestion badge's onClick
ClickBadge == \E text \in BadgeTexts : ChatStep([chat EXCEPT !.inputValue = text])

\* the input's onKeyPress with Enter
PressEnter ==
  /\ ~chat.isTyping
  /\ Len(chat.messages) < MaxMessages
  /\ ChatStep(handleSendMessage(chat))

\* the send button's onClick; disabled={isTyping || !inputValue.trim()}
ClickSend ==
  /\ ~chat.isTyping
  /\ trim(chat.inputValue) # ""
  /\ Len(chat.messages) < MaxMessages
  /\ ChatStep(handleSendMessage(chat))

ChatFetchResolves ==
  \E i \in 1..Len(chat.flights) :
    /\ chat.flights[i].stage = "fetch"
    /\ ChatStep([chat EXCEPT !.flights[i].stage = "json"])

ChatFetchRejects ==
  \E i \in 1..Len(chat.flights) :
    /\ chat.flights[i].stage = "fetch"
    /\ ChatStep(caught(chat, i))

ChatJsonArrives ==
  \E i \in 1..Len(chat.flights), result \in ChatResults :
    /\ chat.flights[i].stage = "json"
    /\ ChatStep(answered(chat, i, result))

ChatJsonFails ==
  \E i \in 1..Len(chat.flights) :
    /\ chat.flights[i].stage = "json"
    /\ ChatStep(caught(chat, i))

\* the browser reads no environment of the server
ClientEnvs ==
  {e \in Envs : e.AI_PROVIDER = "" /\ e.OLLAMA_HOST = "" /\ e.OPENAI_API_KEY = ""}

ChatInit ==
  /\ env \in ClientEnvs
  /\ now = 500
  /\ svc = "js"
  /\ initialized = FALSE
  /\ inits = 0
  /\ aiProvider = ""
  /\ ollamaModel = ""
  /\ openaiModel = ""
  /\ isAIAvailable = FALSE
  /\ chatModel = FALSE
  /\ pc = "idle"
  /\ req = NoReq
  /\ locals = NoLocals
  /\ call = NoCall
  /\ calls = NoCalls
  /\ analysis = Undefined
  /\ followUp = NoFollowUp
  /\ res = NoRes
  /\ fn = NoFn
  /\ second = NoFrame
  /\ solo = NoSolo
  /\ \E csvData \in ChatCollections : chat = mountedChat(csvData)
  /\ page = NoPage

ChatNext ==
  \/ TypeText
  \/ ClickBadge
  \/ PressEnter
  \/ ClickSend
  \/ ChatFetchResolves
  \/ ChatFetchRejects
  \/ ChatJsonArrives
  \/ ChatJsonFails

ChatSpec == ChatInit /\ [][ChatNext]_vars

(***************************************************************************)
(* Properties of the chat widget                                           *)
(***************************************************************************)
typesOf(messages) == [i \in 1..Len(messages) |-> messages[i].type]

\* ai, user, ai, user, ... from the greeting on
alternate(types) ==
  \A i \in 1..Len(types) : types[i] = (IF i % 2 = 1 THEN "ai" ELSE "user")

\* C29 (as claimed, its safety side): at most one request of the widget is
\* outstanding, and it is while the typing flag is set; the messages
\* alternate from the greeting on, ending with the user's message while the
\* flag is set and with the assistant's once it is cleared.
C29_OneAnswerPerMessage ==
  /\ Len(chat.flights) <= 1
  /\ chat.isTyping <=> Len(chat.flights) = 1
  /\ alternate(typesOf(chat.messages))
  /\ chat.messages[Len(chat.messages)].type = (IF chat.isTyping THEN "user" ELSE "ai")

(***************************************************************************)
(* The overview page: the smart insight (Overview.tsx)                     *)
(***************************************************************************)
MaxAuto == 4
MaxRefreshes == 2

\* the dependency list of the insight effect
depsOf(p) == <<Len(p.events), p.hasGeneratedInsight, p.insightLoading>>

\* the page as first rendered over its events; the effect has not run yet
mountedPage(events) ==
  [mounted |-> TRUE, events |-> events,
   smartInsight |-> Null, insightError |-> Null,
   hasGeneratedInsight |-> FALSE, insightLoading |-> FALSE,
   deps |-> <<>>, flights |-> <<>>, auto |-> 0, refreshes |-> 0]

\* React runs an effect after the first render and after every render whose
\* dependencies differ from those of the effect's last run, before it takes
\* up any later update
effectDue(p) == p.deps # depsOf(p)

\* generateInsight as the effect calls it, up to its await of fetch
generateInsight(p) ==
  IF Len(p.events) > 0 /\ ~p.hasGeneratedInsight /\ ~p.insightLoading
  THEN [p EXCEPT !.insightLoading = TRUE,
                 !.insightError = Null,
                 !.flights = Append(@, [stage |-> "fetch", by |-> "effect"]),
                 !.auto = @ + 1]
  ELSE p

\* the refresh button's onClick, up to its await of fetch
refreshClicked(p) ==
  [p EXCEPT !.insightLoading = TRUE,
            !.insightError = Null,
            !.hasGeneratedInsight = FALSE,
            !.flights = Append(@, [stage |-> "fetch", by |-> "refresh"]),
            !.refreshes = @ + 1]

\* the finally block of either request
insightSettled(p, i) == [p EXCEPT !.insightLoading = FALSE, !.flights = without(@, i)]

\* the catch block of either request
insightFailed(p, i, error) == insightSettled([p EXCEPT !.insightError = Str(error)], i)

\* either request past `await response.json()`
insightAnswered(p, i, result) ==
  IF truthy(getProp(result, "success"))
  THEN insightSettled([p EXCEPT !.smartInsight = getProp(result, "insight"),
                                !.hasGeneratedInsight = TRUE], i)
  ELSE insightSettled([p EXCEPT !.insightError =
                                  orElse(getProp(result, "error"),
                                         Str("Failed to generate insight"))], i)

PageCollections == {<<>>, EventsUpTo(1)}

\* the parsed bodies /api/smart-insight answers a 2xx with
InsightResults ==
  {Obj(<<<<"success", Bool(TRUE)>>, <<"insight", Str("Most traffic is clean.")>>>>),
   Obj(<<<<"success", Bool(TRUE)>>, <<"insight", Str("Two bots were seen.")>>>>),
   Obj(<<<<"success", Bool(FALSE)>>, <<"error", Str("No AI provider configured")>>>>),
   Obj(<<<<"success", Bool(FALSE)>>>>)}

PageStep(p) ==
  /\ page' = p
  /\ UNCHANGED <<env, now, svc, initialized, inits, aiProvider, ollamaModel, openaiModel,
                 isAIAvailable, chatModel, pc, req, locals, call, calls, analysis,
                 followUp, res, fn, second, solo, chat>>

\* the insight effect runs with the dependencies of the render it follows
RunEffect ==
  /\ effectDue(page)
  /\ page.auto < MaxAuto
  /\ PageStep(generateInsight([page EXCEPT !.deps = depsOf(page)]))

\* disabled={insightLoading}
ClickRefresh ==
  /\ ~effectDue(page)
  /\ ~page.insightLoading
  /\ page.refreshes < MaxRefreshes
  /\ PageStep(refreshClicked(page))

\* fetch resolves: a 2xx reply is parsed, any other status is thrown
PageFetchResolves ==
  /\ ~effectDue(page)
  /\ \E i \in 1..Len(page.flights), ok \in BOOLEAN :
       /\ page.flights[i].stage = "fetch"
       /\ PageStep(IF ok THEN [page EXCEPT !.flights[i].stage = "json"]
                   ELSE insightFailed(page, i, "Server error: 500"))

PageFetchRejects ==
  /\ ~effectDue(page)
  /\ \E i \in 1..Len(page.flights) :
       /\ page.flights[i].stage = "fetch"
       /\ PageStep(insightFailed(page, i, "Failed to fetch"))

PageJsonArrives ==
  /\ ~effectDue(page)
  /\ \E i \in 1..Len(page.flights), result \in InsightResults :
       /\ page.flights[i].stage = "json"
       /\ PageStep(insightAnswered(page, i, result))

PageJsonFails ==
  /\ ~effectDue(page)
  /\ \E i \in 1..Len(page.flights) :
       /\ page.flights[i].stage = "json"
       /\ PageStep(insightFailed(page, i, "Unexpected end of JSON input"))

OverviewInit ==
  /\ env \in ClientEnvs
  /\ now = 500
  /\ svc = "js"
  /\ initialized = FALSE
  /\ inits = 0
  /\ aiProvider = ""
  /\ ollamaModel = ""
  /\ openaiModel = ""
  /\ isAIAvailable = FALSE
  /\ chatModel = FALSE
  /\ pc = "idle"
  /\ req = NoReq
  /\ locals = NoLocals
  /\ call = NoCall
  /\ calls = NoCalls
  /\ analysis = Undefined
  /\ followUp = NoFollowUp
  /\ res = NoRes
  /\ fn = NoFn
  /\ second = NoFrame
  /\ solo = NoSolo
  /\ chat = NoChat
  /\ \E events \in PageCollections : page = mountedPage(events)

OverviewNext ==
  \/ RunEffect
  \/ ClickRefresh
  \/ PageFetchResolves
  \/ PageFetchRejects
  \/ PageJsonArrives
  \/ PageJsonFails

OverviewSpec == OverviewInit /\ [][OverviewNext]_vars

(***************************************************************************)
(* Properties of the overview page                                         *)
(***************************************************************************)
\* C30 (as claimed): at no time are two smart-insight requests in flight, and
\* as long as the user has not pressed refresh the effect has issued at most
\* one request, however that request ended.
C30_OneAutomaticInsight ==
  /\ Len(page.flights) <= 1
  /\ page.refreshes = 0 => page.auto <= 1

====
